---- MODULE Spec2Model ----
(***************************************************************************)
(* ExamApp (src/examapp.py): a question bank kept in one SQLite table,     *)
(* filled from spreadsheets and from PDF text, and an interactive quiz.    *)
(*                                                                         *)
(* Python strings are modelled as sequences of one-character strings, so   *)
(* that slicing, stripping, splitting and prefix tests are computed the    *)
(* way the code computes them.  None is the one-element sequence NoneVal,  *)
(* which no character sequence equals.                                     *)
(*                                                                         *)
(* A character is written as itself wherever the TLA+ lexer accepts it in  *)
(* a string; a character it rejects is written as its Python escape, so    *)
(* "\\u3000" stands for the one character U+3000 and "\\U0001d7ce" for    *)
(* U+1D7CE.  The tables of whitespace, digits and upper-case forms are     *)
(* those of the Unicode database of the Python that runs the program.      *)
(* parse_pdf is modelled from the list str.splitlines() returns.           *)
(***************************************************************************)
EXTENDS Integers, Sequences, FiniteSets, TLC

\* ------------------------------------------------------------------------
\* Bounds of the model
\* ------------------------------------------------------------------------
MaxTail == 3
MaxStore == 3
MaxNum == 3
MaxQuiz == 2

\* ------------------------------------------------------------------------
\* Python string primitives
\* ------------------------------------------------------------------------
NoneVal == <<"<None>">>

\* the characters for which str.isspace() holds: what strip(), lstrip() and
\* rstrip() remove
Whitespace ==
    {"\t", "\n", "", "\f", "\r", "", "", "", "", " ", "", " ", " ",
     "\\u2000", "\\u2001", "\\u2002", "\\u2003", "\\u2004", "\\u2005",
     "\\u2006", "\\u2007", "\\u2008", "\\u2009", "\\u200a", "\\u2028",
     "\\u2029", "\\u202f", "\\u205f", "\\u3000"}

\* the characters int() skips around a number: the file, group, record and
\* unit separators are whitespace for strip() and not for int()
IntWhitespace ==
    Whitespace \ {"", "", "", ""}

DigitSeq == <<"0", "1", "2", "3", "4", "5", "6", "7", "8", "9">>

\* the characters for which str.isdecimal() holds, one run of ten per
\* script, each run in the order of its values 0..9
DecimalRuns ==
    <<<<"0", "1", "2", "3", "4", "5", "6", "7", "8", "9">>,
      <<"\\u0660", "\\u0661", "\\u0662", "\\u0663", "\\u0664", "\\u0665", "\\u0666", "\\u0667", "\\u0668", "\\u0669">>,
      <<"۰", "۱", "۲", "۳", "۴", "۵", "۶", "۷", "۸", "۹">>,
      <<"߀", "߁", "߂", "߃", "߄", "߅", "߆", "߇", "߈", "߉">>,
      <<"\\u0966", "\\u0967", "\\u0968", "\\u0969", "\\u096a", "\\u096b", "\\u096c", "\\u096d", "\\u096e", "\\u096f">>,
      <<"০", "১", "২", "৩", "৪", "৫", "৬", "৭", "৮", "৯">>,
      <<"\\u0a66", "\\u0a67", "\\u0a68", "\\u0a69", "\\u0a6a", "\\u0a6b", "\\u0a6c", "\\u0a6d", "\\u0a6e", "\\u0a6f">>,
      <<"૦", "૧", "૨", "૩", "૪", "૫", "૬", "૭", "૮", "૯">>,
      <<"\\u0b66", "\\u0b67", "\\u0b68", "\\u0b69", "\\u0b6a", "\\u0b6b", "\\u0b6c", "\\u0b6d", "\\u0b6e", "\\u0b6f">>,
      <<"௦", "௧", "௨", "௩", "௪", "௫", "௬", "௭", "௮", "௯">>,
      <<"\\u0c66", "\\u0c67", "\\u0c68", "\\u0c69", "\\u0c6a", "\\u0c6b", "\\u0c6c", "\\u0c6d", "\\u0c6e", "\\u0c6f">>,
      <<"೦", "೧", "೨", "೩", "೪", "೫", "೬", "೭", "೮", "೯">>,
      <<"\\u0d66", "\\u0d67", "\\u0d68", "\\u0d69", "\\u0d6a", "\\u0d6b", "\\u0d6c", "\\u0d6d", "\\u0d6e", "\\u0d6f">>,
      <<"෦", "෧", "෨", "෩", "෪", "෫", "෬", "෭", "෮", "෯">>,
      <<"\\u0e50", "\\u0e51", "\\u0e52", "\\u0e53", "\\u0e54", "\\u0e55", "\\u0e56", "\\u0e57", "\\u0e58", "\\u0e59">>,
      <<"໐", "໑", "໒", "໓", "໔", "໕", "໖", "໗", "໘", "໙">>,
      <<"\\u0f20", "\\u0f21", "\\u0f22", "\\u0f23", "\\u0f24", "\\u0f25", "\\u0f26", "\\u0f27", "\\u0f28", "\\u0f29">>,
      <<"\\u1040", "\\u1041", "\\u1042", "\\u1043", "\\u1044", "\\u1045", "\\u1046", "\\u1047", "\\u1048", "\\u1049">>,
      <<"႐", "႑", "႒", "႓", "႔", "႕", "႖", "႗", "႘", "႙">>,
      <<"០", "១", "២", "៣", "៤", "៥", "៦", "៧", "៨", "៩">>,
      <<"\\u1810", "\\u1811", "\\u1812", "\\u1813", "\\u1814", "\\u1815", "\\u1816", "\\u1817", "\\u1818", "\\u1819">>,
      <<"\\u1946", "\\u1947", "\\u1948", "\\u1949", "\\u194a", "\\u194b", "\\u194c", "\\u194d", "\\u194e", "\\u194f">>,
      <<"᧐", "᧑", "᧒", "᧓", "᧔", "᧕", "᧖", "᧗", "᧘", "᧙">>,
      <<"᪀", "᪁", "᪂", "᪃", "᪄", "᪅", "᪆", "᪇", "᪈", "᪉">>,
      <<"᪐", "᪑", "᪒", "᪓", "᪔", "᪕", "᪖", "᪗", "᪘", "᪙">>,
      <<"\\u1b50", "\\u1b51", "\\u1b52", "\\u1b53", "\\u1b54", "\\u1b55", "\\u1b56", "\\u1b57", "\\u1b58", "\\u1b59">>,
      <<"᮰", "᮱", "᮲", "᮳", "᮴", "᮵", "᮶", "᮷", "᮸", "᮹">>,
      <<"\\u1c40", "\\u1c41", "\\u1c42", "\\u1c43", "\\u1c44", "\\u1c45", "\\u1c46", "\\u1c47", "\\u1c48", "\\u1c49">>,
      <<"\\u1c50", "\\u1c51", "\\u1c52", "\\u1c53", "\\u1c54", "\\u1c55", "\\u1c56", "\\u1c57", "\\u1c58", "\\u1c59">>,
      <<"\\ua620", "\\ua621", "\\ua622", "\\ua623", "\\ua624", "\\ua625", "\\ua626", "\\ua627", "\\ua628", "\\ua629">>,
      <<"꣐", "꣑", "꣒", "꣓", "꣔", "꣕", "꣖", "꣗", "꣘", "꣙">>,
      <<"\\ua900", "\\ua901", "\\ua902", "\\ua903", "\\ua904", "\\ua905", "\\ua906", "\\ua907", "\\ua908", "\\ua909">>,
      <<"꧐", "꧑", "꧒", "꧓", "꧔", "꧕", "꧖", "꧗", "꧘", "꧙">>,
      <<"꧰", "꧱", "꧲", "꧳", "꧴", "꧵", "꧶", "꧷", "꧸", "꧹">>,
      <<"\\uaa50", "\\uaa51", "\\uaa52", "\\uaa53", "\\uaa54", "\\uaa55", "\\uaa56", "\\uaa57", "\\uaa58", "\\uaa59">>,
      <<"꯰", "꯱", "꯲", "꯳", "꯴", "꯵", "꯶", "꯷", "꯸", "꯹">>,
      <<"\\uff10", "\\uff11", "\\uff12", "\\uff13", "\\uff14", "\\uff15", "\\uff16", "\\uff17", "\\uff18", "\\uff19">>,
      <<"\\U000104a0", "\\U000104a1", "\\U000104a2", "\\U000104a3", "\\U000104a4", "\\U000104a5", "\\U000104a6", "\\U000104a7", "\\U000104a8", "\\U000104a9">>,
      <<"\\U00010d30", "\\U00010d31", "\\U00010d32", "\\U00010d33", "\\U00010d34", "\\U00010d35", "\\U00010d36", "\\U00010d37", "\\U00010d38", "\\U00010d39">>,
      <<"\\U00011066", "\\U00011067", "\\U00011068", "\\U00011069", "\\U0001106a", "\\U0001106b", "\\U0001106c", "\\U0001106d", "\\U0001106e", "\\U0001106f">>,
      <<"\\U000110f0", "\\U000110f1", "\\U000110f2", "\\U000110f3", "\\U000110f4", "\\U000110f5", "\\U000110f6", "\\U000110f7", "\\U000110f8", "\\U000110f9">>,
      <<"\\U00011136", "\\U00011137", "\\U00011138", "\\U00011139", "\\U0001113a", "\\U0001113b", "\\U0001113c", "\\U0001113d", "\\U0001113e", "\\U0001113f">>,
      <<"\\U000111d0", "\\U000111d1", "\\U000111d2", "\\U000111d3", "\\U000111d4", "\\U000111d5", "\\U000111d6", "\\U000111d7", "\\U000111d8", "\\U000111d9">>,
      <<"\\U000112f0", "\\U000112f1", "\\U000112f2", "\\U000112f3", "\\U000112f4", "\\U000112f5", "\\U000112f6", "\\U000112f7", "\\U000112f8", "\\U000112f9">>,
      <<"\\U00011450", "\\U00011451", "\\U00011452", "\\U00011453", "\\U00011454", "\\U00011455", "\\U00011456", "\\U00011457", "\\U00011458", "\\U00011459">>,
      <<"\\U000114d0", "\\U000114d1", "\\U000114d2", "\\U000114d3", "\\U000114d4", "\\U000114d5", "\\U000114d6", "\\U000114d7", "\\U000114d8", "\\U000114d9">>,
      <<"\\U00011650", "\\U00011651", "\\U00011652", "\\U00011653", "\\U00011654", "\\U00011655", "\\U00011656", "\\U00011657", "\\U00011658", "\\U00011659">>,
      <<"\\U000116c0", "\\U000116c1", "\\U000116c2", "\\U000116c3", "\\U000116c4", "\\U000116c5", "\\U000116c6", "\\U000116c7", "\\U000116c8", "\\U000116c9">>,
      <<"\\U00011730", "\\U00011731", "\\U00011732", "\\U00011733", "\\U00011734", "\\U00011735", "\\U00011736", "\\U00011737", "\\U00011738", "\\U00011739">>,
      <<"\\U000118e0", "\\U000118e1", "\\U000118e2", "\\U000118e3", "\\U000118e4", "\\U000118e5", "\\U000118e6", "\\U000118e7", "\\U000118e8", "\\U000118e9">>,
      <<"\\U00011950", "\\U00011951", "\\U00011952", "\\U00011953", "\\U00011954", "\\U00011955", "\\U00011956", "\\U00011957", "\\U00011958", "\\U00011959">>,
      <<"\\U00011c50", "\\U00011c51", "\\U00011c52", "\\U00011c53", "\\U00011c54", "\\U00011c55", "\\U00011c56", "\\U00011c57", "\\U00011c58", "\\U00011c59">>,
      <<"\\U00011d50", "\\U00011d51", "\\U00011d52", "\\U00011d53", "\\U00011d54", "\\U00011d55", "\\U00011d56", "\\U00011d57", "\\U00011d58", "\\U00011d59">>,
      <<"\\U00011da0", "\\U00011da1", "\\U00011da2", "\\U00011da3", "\\U00011da4", "\\U00011da5", "\\U00011da6", "\\U00011da7", "\\U00011da8", "\\U00011da9">>,
      <<"\\U00016a60", "\\U00016a61", "\\U00016a62", "\\U00016a63", "\\U00016a64", "\\U00016a65", "\\U00016a66", "\\U00016a67", "\\U00016a68", "\\U00016a69">>,
      <<"\\U00016ac0", "\\U00016ac1", "\\U00016ac2", "\\U00016ac3", "\\U00016ac4", "\\U00016ac5", "\\U00016ac6", "\\U00016ac7", "\\U00016ac8", "\\U00016ac9">>,
      <<"\\U00016b50", "\\U00016b51", "\\U00016b52", "\\U00016b53", "\\U00016b54", "\\U00016b55", "\\U00016b56", "\\U00016b57", "\\U00016b58", "\\U00016b59">>,
      <<"\\U0001d7ce", "\\U0001d7cf", "\\U0001d7d0", "\\U0001d7d1", "\\U0001d7d2", "\\U0001d7d3", "\\U0001d7d4", "\\U0001d7d5", "\\U0001d7d6", "\\U0001d7d7">>,
      <<"\\U0001d7d8", "\\U0001d7d9", "\\U0001d7da", "\\U0001d7db", "\\U0001d7dc", "\\U0001d7dd", "\\U0001d7de", "\\U0001d7df", "\\U0001d7e0", "\\U0001d7e1">>,
      <<"\\U0001d7e2", "\\U0001d7e3", "\\U0001d7e4", "\\U0001d7e5", "\\U0001d7e6", "\\U0001d7e7", "\\U0001d7e8", "\\U0001d7e9", "\\U0001d7ea", "\\U0001d7eb">>,
      <<"\\U0001d7ec", "\\U0001d7ed", "\\U0001d7ee", "\\U0001d7ef", "\\U0001d7f0", "\\U0001d7f1", "\\U0001d7f2", "\\U0001d7f3", "\\U0001d7f4", "\\U0001d7f5">>,
      <<"\\U0001d7f6", "\\U0001d7f7", "\\U0001d7f8", "\\U0001d7f9", "\\U0001d7fa", "\\U0001d7fb", "\\U0001d7fc", "\\U0001d7fd", "\\U0001d7fe", "\\U0001d7ff">>,
      <<"\\U0001e140", "\\U0001e141", "\\U0001e142", "\\U0001e143", "\\U0001e144", "\\U0001e145", "\\U0001e146", "\\U0001e147", "\\U0001e148", "\\U0001e149">>,
      <<"\\U0001e2f0", "\\U0001e2f1", "\\U0001e2f2", "\\U0001e2f3", "\\U0001e2f4", "\\U0001e2f5", "\\U0001e2f6", "\\U0001e2f7", "\\U0001e2f8", "\\U0001e2f9">>,
      <<"\\U0001e950", "\\U0001e951", "\\U0001e952", "\\U0001e953", "\\U0001e954", "\\U0001e955", "\\U0001e956", "\\U0001e957", "\\U0001e958", "\\U0001e959">>,
      <<"\\U0001fbf0", "\\U0001fbf1", "\\U0001fbf2", "\\U0001fbf3", "\\U0001fbf4", "\\U0001fbf5", "\\U0001fbf6", "\\U0001fbf7", "\\U0001fbf8", "\\U0001fbf9">>>>

DecimalChars ==
    {DecimalRuns[r][d] : r \in 1..Len(DecimalRuns), d \in 1..10}

\* the characters for which str.isdigit() holds and str.isdecimal() does not
\* (superscripts, circled and parenthesised digits, ...)
OtherDigits ==
    {"²", "³", "¹", "\\u1369", "\\u136a", "\\u136b", "\\u136c", "\\u136d",
     "\\u136e", "\\u136f", "\\u1370", "\\u1371", "᧚", "\\u2070", "\\u2074",
     "\\u2075", "\\u2076", "\\u2077", "\\u2078", "\\u2079", "₀", "₁", "₂",
     "₃", "₄", "₅", "₆", "₇", "₈", "₉", "\\u2460", "\\u2461", "\\u2462",
     "\\u2463", "\\u2464", "\\u2465", "\\u2466", "\\u2467", "\\u2468",
     "\\u2474", "\\u2475", "\\u2476", "\\u2477", "\\u2478", "\\u2479",
     "\\u247a", "\\u247b", "\\u247c", "⒈", "⒉", "⒊", "⒋", "⒌", "⒍", "⒎", "⒏",
     "⒐", "⓪", "⓵", "⓶", "⓷", "⓸", "⓹", "⓺", "⓻", "⓼", "⓽", "⓿", "\\u2776",
     "\\u2777", "\\u2778", "\\u2779", "\\u277a", "\\u277b", "\\u277c",
     "\\u277d", "\\u277e", "➀", "➁", "➂", "➃", "➄", "➅", "➆", "➇", "➈", "➊",
     "➋", "➌", "➍", "➎", "➏", "➐", "➑", "➒", "\\U00010a40", "\\U00010a41",
     "\\U00010a42", "\\U00010a43", "\\U00010e60", "\\U00010e61",
     "\\U00010e62", "\\U00010e63", "\\U00010e64", "\\U00010e65",
     "\\U00010e66", "\\U00010e67", "\\U00010e68", "\\U00011052",
     "\\U00011053", "\\U00011054", "\\U00011055", "\\U00011056",
     "\\U00011057", "\\U00011058", "\\U00011059", "\\U0001105a",
     "\\U0001f100", "\\U0001f101", "\\U0001f102", "\\U0001f103",
     "\\U0001f104", "\\U0001f105", "\\U0001f106", "\\U0001f107",
     "\\U0001f108", "\\U0001f109", "\\U0001f10a"}

DigitChars == DecimalChars \cup OtherDigits

\* str.isdigit() of one character
IsDigit(c) == c \in DigitChars

\* s[a:] for a >= 0
SliceFrom(s, a) == IF a >= Len(s) THEN <<>> ELSE SubSeq(s, a + 1, Len(s))

\* s[a:b] for 0 <= a <= b
Slice(s, a, b) ==
    LET e == IF b < Len(s) THEN b ELSE Len(s)
    IN  IF a >= e THEN <<>> ELSE SubSeq(s, a + 1, e)

StartsWith(s, p) == Len(s) >= Len(p) /\ SubSeq(s, 1, Len(p)) = p

RECURSIVE LStrip(_)
LStrip(s) == IF s # <<>> /\ Head(s) \in Whitespace THEN LStrip(Tail(s)) ELSE s

RECURSIVE RStrip(_)
RStrip(s) ==
    IF s # <<>> /\ s[Len(s)] \in Whitespace
    THEN RStrip(SubSeq(s, 1, Len(s) - 1))
    ELSE s

Strip(s) == RStrip(LStrip(s))

\* the characters that str.upper() changes, in code point order ...
UpperFrom ==
    <<"a", "b", "c", "d", "e", "f", "g", "h", "i", "j", "k", "l", "m", "n",
      "o", "p", "q", "r", "s", "t", "u", "v", "w", "x", "y", "z", "µ", "ß",
      "à", "á", "â", "ã", "ä", "å", "æ", "ç", "è", "é", "ê", "ë", "ì", "í",
      "î", "ï", "ð", "ñ", "ò", "ó", "ô", "õ", "ö", "ø", "ù", "ú", "û", "ü",
      "ý", "þ", "ÿ", "\\u0101", "\\u0103", "\\u0105", "\\u0107", "\\u0109",
      "\\u010b", "\\u010d", "\\u010f", "\\u0111", "\\u0113", "\\u0115",
      "\\u0117", "\\u0119", "\\u011b", "\\u011d", "\\u011f", "\\u0121",
      "\\u0123", "\\u0125", "\\u0127", "\\u0129", "\\u012b", "\\u012d",
      "\\u012f", "\\u0131", "\\u0133", "\\u0135", "\\u0137", "\\u013a",
      "\\u013c", "\\u013e", "\\u0140", "\\u0142", "\\u0144", "\\u0146",
      "\\u0148", "\\u0149", "\\u014b", "\\u014d", "\\u014f", "\\u0151",
      "\\u0153", "\\u0155", "\\u0157", "\\u0159", "\\u015b", "\\u015d",
      "\\u015f", "\\u0161", "\\u0163", "\\u0165", "\\u0167", "\\u0169",
      "\\u016b", "\\u016d", "\\u016f", "\\u0171", "\\u0173", "\\u0175",
      "\\u0177", "\\u017a", "\\u017c", "\\u017e", "\\u017f", "ƀ", "ƃ", "ƅ",
      "ƈ", "ƌ", "ƒ", "ƕ", "ƙ", "ƚ", "ƞ", "ơ", "ƣ", "ƥ", "ƨ", "ƭ", "ư", "ƴ",
      "ƶ", "ƹ", "ƽ", "ƿ", "ǅ", "ǆ", "ǈ", "ǉ", "ǋ", "ǌ", "ǎ", "ǐ", "ǒ", "ǔ",
      "ǖ", "ǘ", "ǚ", "ǜ", "ǝ", "ǟ", "ǡ", "ǣ", "ǥ", "ǧ", "ǩ", "ǫ", "ǭ", "ǯ",
      "ǰ", "ǲ", "ǳ", "ǵ", "ǹ", "ǻ", "ǽ", "ǿ", "\\u0201", "\\u0203",
      "\\u0205", "\\u0207", "\\u0209", "\\u020b", "\\u020d", "\\u020f",
      "\\u0211", "\\u0213", "\\u0215", "\\u0217", "\\u0219", "\\u021b",
      "\\u021d", "\\u021f", "\\u0223", "\\u0225", "\\u0227", "\\u0229",
      "\\u022b", "\\u022d", "\\u022f", "\\u0231", "\\u0233", "\\u023c",
      "\\u023f", "\\u0240", "\\u0242", "\\u0247", "\\u0249", "\\u024b",
      "\\u024d", "\\u024f", "\\u0250", "\\u0251", "\\u0252", "\\u0253",
      "\\u0254", "\\u0256", "\\u0257", "\\u0259", "\\u025b", "\\u025c",
      "\\u0260", "\\u0261", "\\u0263", "\\u0265", "\\u0266", "\\u0268",
      "\\u0269", "\\u026a", "\\u026b", "\\u026c", "\\u026f", "\\u0271",
      "\\u0272", "\\u0275", "\\u027d", "ʀ", "ʂ", "ʃ", "ʇ", "ʈ", "ʉ", "ʊ",
      "ʋ", "ʌ", "ʒ", "ʝ", "ʞ", "\\u0345", "\\u0371", "\\u0373", "\\u0377",
      "\\u037b", "\\u037c", "\\u037d", "ΐ", "ά", "έ", "ή", "ί", "ΰ", "α",
      "β", "γ", "δ", "ε", "ζ", "η", "θ", "ι", "κ", "λ", "μ", "ν", "ξ", "ο",
      "π", "ρ", "ς", "σ", "τ", "υ", "φ", "χ", "ψ", "ω", "ϊ", "ϋ", "ό", "ύ",
      "ώ", "ϐ", "ϑ", "ϕ", "ϖ", "ϗ", "ϙ", "ϛ", "ϝ", "ϟ", "ϡ", "ϣ", "ϥ", "ϧ",
      "ϩ", "ϫ", "ϭ", "ϯ", "ϰ", "ϱ", "ϲ", "ϳ", "ϵ", "ϸ", "ϻ", "\\u0430",
      "\\u0431", "\\u0432", "\\u0433", "\\u0434", "\\u0435", "\\u0436",
      "\\u0437", "\\u0438", "\\u0439", "\\u043a", "\\u043b", "\\u043c",
      "\\u043d", "\\u043e", "\\u043f", "\\u0440", "\\u0441", "\\u0442",
      "\\u0443", "\\u0444", "\\u0445", "\\u0446", "\\u0447", "\\u0448",
      "\\u0449", "\\u044a", "\\u044b", "\\u044c", "\\u044d", "\\u044e",
      "\\u044f", "\\u0450", "\\u0451", "\\u0452", "\\u0453", "\\u0454",
      "\\u0455", "\\u0456", "\\u0457", "\\u0458", "\\u0459", "\\u045a",
      "\\u045b", "\\u045c", "\\u045d", "\\u045e", "\\u045f", "\\u0461",
      "\\u0463", "\\u0465", "\\u0467", "\\u0469", "\\u046b", "\\u046d",
      "\\u046f", "\\u0471", "\\u0473", "\\u0475", "\\u0477", "\\u0479",
      "\\u047b", "\\u047d", "\\u047f", "ҁ", "ҋ", "ҍ", "ҏ", "ґ", "ғ", "ҕ",
      "җ", "ҙ", "қ", "ҝ", "ҟ", "ҡ", "ң", "ҥ", "ҧ", "ҩ", "ҫ", "ҭ", "ү", "ұ",
      "ҳ", "ҵ", "ҷ", "ҹ", "һ", "ҽ", "ҿ", "ӂ", "ӄ", "ӆ", "ӈ", "ӊ", "ӌ", "ӎ",
      "ӏ", "ӑ", "ӓ", "ӕ", "ӗ", "ә", "ӛ", "ӝ", "ӟ", "ӡ", "ӣ", "ӥ", "ӧ", "ө",
      "ӫ", "ӭ", "ӯ", "ӱ", "ӳ", "ӵ", "ӷ", "ӹ", "ӻ", "ӽ", "ӿ", "\\u0501",
      "\\u0503", "\\u0505", "\\u0507", "\\u0509", "\\u050b", "\\u050d",
      "\\u050f", "\\u0511", "\\u0513", "\\u0515", "\\u0517", "\\u0519",
      "\\u051b", "\\u051d", "\\u051f", "\\u0521", "\\u0523", "\\u0525",
      "\\u0527", "\\u0529", "\\u052b", "\\u052d", "\\u052f", "\\u0561",
      "\\u0562", "\\u0563", "\\u0564", "\\u0565", "\\u0566", "\\u0567",
      "\\u0568", "\\u0569", "\\u056a", "\\u056b", "\\u056c", "\\u056d",
      "\\u056e", "\\u056f", "\\u0570", "\\u0571", "\\u0572", "\\u0573",
      "\\u0574", "\\u0575", "\\u0576", "\\u0577", "\\u0578", "\\u0579",
      "\\u057a", "\\u057b", "\\u057c", "\\u057d", "\\u057e", "\\u057f", "ր",
      "ց", "ւ", "փ", "ք", "օ", "ֆ", "և", "ა", "ბ", "გ", "დ", "ე", "ვ", "ზ",
      "თ", "ი", "კ", "ლ", "მ", "ნ", "ო", "პ", "ჟ", "რ", "ს", "ტ", "უ", "ფ",
      "ქ", "ღ", "ყ", "შ", "ჩ", "ც", "ძ", "წ", "ჭ", "ხ", "ჯ", "ჰ", "ჱ", "ჲ",
      "ჳ", "ჴ", "ჵ", "ჶ", "ჷ", "ჸ", "ჹ", "ჺ", "ჽ", "ჾ", "ჿ", "ᏸ", "ᏹ", "ᏺ",
      "ᏻ", "ᏼ", "ᏽ", "ᲀ", "ᲁ", "ᲂ", "ᲃ", "ᲄ", "ᲅ", "ᲆ", "ᲇ", "ᲈ", "\\u1d79",
      "\\u1d7d", "ᶎ", "\\u1e01", "\\u1e03", "\\u1e05", "\\u1e07", "\\u1e09",
      "\\u1e0b", "\\u1e0d", "\\u1e0f", "\\u1e11", "\\u1e13", "\\u1e15",
      "\\u1e17", "\\u1e19", "\\u1e1b", "\\u1e1d", "\\u1e1f", "\\u1e21",
      "\\u1e23", "\\u1e25", "\\u1e27", "\\u1e29", "\\u1e2b", "\\u1e2d",
      "\\u1e2f", "\\u1e31", "\\u1e33", "\\u1e35", "\\u1e37", "\\u1e39",
      "\\u1e3b", "\\u1e3d", "\\u1e3f", "\\u1e41", "\\u1e43", "\\u1e45",
      "\\u1e47", "\\u1e49", "\\u1e4b", "\\u1e4d", "\\u1e4f", "\\u1e51",
      "\\u1e53", "\\u1e55", "\\u1e57", "\\u1e59", "\\u1e5b", "\\u1e5d",
      "\\u1e5f", "\\u1e61", "\\u1e63", "\\u1e65", "\\u1e67", "\\u1e69",
      "\\u1e6b", "\\u1e6d", "\\u1e6f", "\\u1e71", "\\u1e73", "\\u1e75",
      "\\u1e77", "\\u1e79", "\\u1e7b", "\\u1e7d", "\\u1e7f", "ẁ", "ẃ", "ẅ",
      "ẇ", "ẉ", "ẋ", "ẍ", "ẏ", "ẑ", "ẓ", "ẕ", "ẖ", "ẗ", "ẘ", "ẙ", "ẚ", "ẛ",
      "ạ", "ả", "ấ", "ầ", "ẩ", "ẫ", "ậ", "ắ", "ằ", "ẳ", "ẵ", "ặ", "ẹ", "ẻ",
      "ẽ", "ế", "ề", "ể", "ễ", "ệ", "ỉ", "ị", "ọ", "ỏ", "ố", "ồ", "ổ", "ỗ",
      "ộ", "ớ", "ờ", "ở", "ỡ", "ợ", "ụ", "ủ", "ứ", "ừ", "ử", "ữ", "ự", "ỳ",
      "ỵ", "ỷ", "ỹ", "ỻ", "ỽ", "ỿ", "\\u1f00", "\\u1f01", "\\u1f02",
      "\\u1f03", "\\u1f04", "\\u1f05", "\\u1f06", "\\u1f07", "\\u1f10",
      "\\u1f11", "\\u1f12", "\\u1f13", "\\u1f14", "\\u1f15", "\\u1f20",
      "\\u1f21", "\\u1f22", "\\u1f23", "\\u1f24", "\\u1f25", "\\u1f26",
      "\\u1f27", "\\u1f30", "\\u1f31", "\\u1f32", "\\u1f33", "\\u1f34",
      "\\u1f35", "\\u1f36", "\\u1f37", "\\u1f40", "\\u1f41", "\\u1f42",
      "\\u1f43", "\\u1f44", "\\u1f45", "\\u1f50", "\\u1f51", "\\u1f52",
      "\\u1f53", "\\u1f54", "\\u1f55", "\\u1f56", "\\u1f57", "\\u1f60",
      "\\u1f61", "\\u1f62", "\\u1f63", "\\u1f64", "\\u1f65", "\\u1f66",
      "\\u1f67", "\\u1f70", "\\u1f71", "\\u1f72", "\\u1f73", "\\u1f74",
      "\\u1f75", "\\u1f76", "\\u1f77", "\\u1f78", "\\u1f79", "\\u1f7a",
      "\\u1f7b", "\\u1f7c", "\\u1f7d", "ᾀ", "ᾁ", "ᾂ", "ᾃ", "ᾄ", "ᾅ", "ᾆ",
      "ᾇ", "ᾈ", "ᾉ", "ᾊ", "ᾋ", "ᾌ", "ᾍ", "ᾎ", "ᾏ", "ᾐ", "ᾑ", "ᾒ", "ᾓ", "ᾔ",
      "ᾕ", "ᾖ", "ᾗ", "ᾘ", "ᾙ", "ᾚ", "ᾛ", "ᾜ", "ᾝ", "ᾞ", "ᾟ", "ᾠ", "ᾡ", "ᾢ",
      "ᾣ", "ᾤ", "ᾥ", "ᾦ", "ᾧ", "ᾨ", "ᾩ", "ᾪ", "ᾫ", "ᾬ", "ᾭ", "ᾮ", "ᾯ", "ᾰ",
      "ᾱ", "ᾲ", "ᾳ", "ᾴ", "ᾶ", "ᾷ", "ᾼ", "ι", "ῂ", "ῃ", "ῄ", "ῆ", "ῇ", "ῌ",
      "ῐ", "ῑ", "ῒ", "ΐ", "ῖ", "ῗ", "ῠ", "ῡ", "ῢ", "ΰ", "ῤ", "ῥ", "ῦ", "ῧ",
      "ῲ", "ῳ", "ῴ", "ῶ", "ῷ", "ῼ", "\\u214e", "\\u2170", "\\u2171",
      "\\u2172", "\\u2173", "\\u2174", "\\u2175", "\\u2176", "\\u2177",
      "\\u2178", "\\u2179", "\\u217a", "\\u217b", "\\u217c", "\\u217d",
      "\\u217e", "\\u217f", "ↄ", "ⓐ", "ⓑ", "ⓒ", "ⓓ", "ⓔ", "ⓕ", "ⓖ", "ⓗ", "ⓘ",
      "ⓙ", "ⓚ", "ⓛ", "ⓜ", "ⓝ", "ⓞ", "ⓟ", "ⓠ", "ⓡ", "ⓢ", "ⓣ", "ⓤ", "ⓥ", "ⓦ",
      "ⓧ", "ⓨ", "ⓩ", "\\u2c30", "\\u2c31", "\\u2c32", "\\u2c33", "\\u2c34",
      "\\u2c35", "\\u2c36", "\\u2c37", "\\u2c38", "\\u2c39", "\\u2c3a",
      "\\u2c3b", "\\u2c3c", "\\u2c3d", "\\u2c3e", "\\u2c3f", "\\u2c40",
      "\\u2c41", "\\u2c42", "\\u2c43", "\\u2c44", "\\u2c45", "\\u2c46",
      "\\u2c47", "\\u2c48", "\\u2c49", "\\u2c4a", "\\u2c4b", "\\u2c4c",
      "\\u2c4d", "\\u2c4e", "\\u2c4f", "\\u2c50", "\\u2c51", "\\u2c52",
      "\\u2c53", "\\u2c54", "\\u2c55", "\\u2c56", "\\u2c57", "\\u2c58",
      "\\u2c59", "\\u2c5a", "\\u2c5b", "\\u2c5c", "\\u2c5d", "\\u2c5e",
      "\\u2c5f", "\\u2c61", "\\u2c65", "\\u2c66", "\\u2c68", "\\u2c6a",
      "\\u2c6c", "\\u2c73", "\\u2c76", "ⲁ", "ⲃ", "ⲅ", "ⲇ", "ⲉ", "ⲋ", "ⲍ",
      "ⲏ", "ⲑ", "ⲓ", "ⲕ", "ⲗ", "ⲙ", "ⲛ", "ⲝ", "ⲟ", "ⲡ", "ⲣ", "ⲥ", "ⲧ", "ⲩ",
      "ⲫ", "ⲭ", "ⲯ", "ⲱ", "ⲳ", "ⲵ", "ⲷ", "ⲹ", "ⲻ", "ⲽ", "ⲿ", "ⳁ", "ⳃ", "ⳅ",
      "ⳇ", "ⳉ", "ⳋ", "ⳍ", "ⳏ", "ⳑ", "ⳓ", "ⳕ", "ⳗ", "ⳙ", "ⳛ", "ⳝ", "ⳟ", "ⳡ",
      "ⳣ", "ⳬ", "ⳮ", "ⳳ", "\\u2d00", "\\u2d01", "\\u2d02", "\\u2d03",
      "\\u2d04", "\\u2d05", "\\u2d06", "\\u2d07", "\\u2d08", "\\u2d09",
      "\\u2d0a", "\\u2d0b", "\\u2d0c", "\\u2d0d", "\\u2d0e", "\\u2d0f",
      "\\u2d10", "\\u2d11", "\\u2d12", "\\u2d13", "\\u2d14", "\\u2d15",
      "\\u2d16", "\\u2d17", "\\u2d18", "\\u2d19", "\\u2d1a", "\\u2d1b",
      "\\u2d1c", "\\u2d1d", "\\u2d1e", "\\u2d1f", "\\u2d20", "\\u2d21",
      "\\u2d22", "\\u2d23", "\\u2d24", "\\u2d25", "\\u2d27", "\\u2d2d",
      "\\ua641", "\\ua643", "\\ua645", "\\ua647", "\\ua649", "\\ua64b",
      "\\ua64d", "\\ua64f", "\\ua651", "\\ua653", "\\ua655", "\\ua657",
      "\\ua659", "\\ua65b", "\\ua65d", "\\ua65f", "\\ua661", "\\ua663",
      "\\ua665", "\\ua667", "\\ua669", "\\ua66b", "\\ua66d", "ꚁ", "ꚃ", "ꚅ",
      "ꚇ", "ꚉ", "ꚋ", "ꚍ", "ꚏ", "ꚑ", "ꚓ", "ꚕ", "ꚗ", "ꚙ", "ꚛ", "\\ua723",
      "\\ua725", "\\ua727", "\\ua729", "\\ua72b", "\\ua72d", "\\ua72f",
      "\\ua733", "\\ua735", "\\ua737", "\\ua739", "\\ua73b", "\\ua73d",
      "\\ua73f", "\\ua741", "\\ua743", "\\ua745", "\\ua747", "\\ua749",
      "\\ua74b", "\\ua74d", "\\ua74f", "\\ua751", "\\ua753", "\\ua755",
      "\\ua757", "\\ua759", "\\ua75b", "\\ua75d", "\\ua75f", "\\ua761",
      "\\ua763", "\\ua765", "\\ua767", "\\ua769", "\\ua76b", "\\ua76d",
      "\\ua76f", "\\ua77a", "\\ua77c", "\\ua77f", "ꞁ", "ꞃ", "ꞅ", "ꞇ", "ꞌ",
      "ꞑ", "ꞓ", "ꞔ", "ꞗ", "ꞙ", "ꞛ", "ꞝ", "ꞟ", "ꞡ", "ꞣ", "ꞥ", "ꞧ", "ꞩ", "ꞵ",
      "ꞷ", "ꞹ", "ꞻ", "ꞽ", "ꞿ", "ꟁ", "ꟃ", "ꟈ", "ꟊ", "ꟑ", "ꟗ", "ꟙ", "ꟶ",
      "\\uab53", "\\uab70", "\\uab71", "\\uab72", "\\uab73", "\\uab74",
      "\\uab75", "\\uab76", "\\uab77", "\\uab78", "\\uab79", "\\uab7a",
      "\\uab7b", "\\uab7c", "\\uab7d", "\\uab7e", "\\uab7f", "ꮀ", "ꮁ", "ꮂ",
      "ꮃ", "ꮄ", "ꮅ", "ꮆ", "ꮇ", "ꮈ", "ꮉ", "ꮊ", "ꮋ", "ꮌ", "ꮍ", "ꮎ", "ꮏ", "ꮐ",
      "ꮑ", "ꮒ", "ꮓ", "ꮔ", "ꮕ", "ꮖ", "ꮗ", "ꮘ", "ꮙ", "ꮚ", "ꮛ", "ꮜ", "ꮝ", "ꮞ",
      "ꮟ", "ꮠ", "ꮡ", "ꮢ", "ꮣ", "ꮤ", "ꮥ", "ꮦ", "ꮧ", "ꮨ", "ꮩ", "ꮪ", "ꮫ", "ꮬ",
      "ꮭ", "ꮮ", "ꮯ", "ꮰ", "ꮱ", "ꮲ", "ꮳ", "ꮴ", "ꮵ", "ꮶ", "ꮷ", "ꮸ", "ꮹ", "ꮺ",
      "ꮻ", "ꮼ", "ꮽ", "ꮾ", "ꮿ", "\\ufb00", "\\ufb01", "\\ufb02", "\\ufb03",
      "\\ufb04", "\\ufb05", "\\ufb06", "\\ufb13", "\\ufb14", "\\ufb15",
      "\\ufb16", "\\ufb17", "\\uff41", "\\uff42", "\\uff43", "\\uff44",
      "\\uff45", "\\uff46", "\\uff47", "\\uff48", "\\uff49", "\\uff4a",
      "\\uff4b", "\\uff4c", "\\uff4d", "\\uff4e", "\\uff4f", "\\uff50",
      "\\uff51", "\\uff52", "\\uff53", "\\uff54", "\\uff55", "\\uff56",
      "\\uff57", "\\uff58", "\\uff59", "\\uff5a", "\\U00010428",
      "\\U00010429", "\\U0001042a", "\\U0001042b", "\\U0001042c",
      "\\U0001042d", "\\U0001042e", "\\U0001042f", "\\U00010430",
      "\\U00010431", "\\U00010432", "\\U00010433", "\\U00010434",
      "\\U00010435", "\\U00010436", "\\U00010437", "\\U00010438",
      "\\U00010439", "\\U0001043a", "\\U0001043b", "\\U0001043c",
      "\\U0001043d", "\\U0001043e", "\\U0001043f", "\\U00010440",
      "\\U00010441", "\\U00010442", "\\U00010443", "\\U00010444",
      "\\U00010445", "\\U00010446", "\\U00010447", "\\U00010448",
      "\\U00010449", "\\U0001044a", "\\U0001044b", "\\U0001044c",
      "\\U0001044d", "\\U0001044e", "\\U0001044f", "\\U000104d8",
      "\\U000104d9", "\\U000104da", "\\U000104db", "\\U000104dc",
      "\\U000104dd", "\\U000104de", "\\U000104df", "\\U000104e0",
      "\\U000104e1", "\\U000104e2", "\\U000104e3", "\\U000104e4",
      "\\U000104e5", "\\U000104e6", "\\U000104e7", "\\U000104e8",
      "\\U000104e9", "\\U000104ea", "\\U000104eb", "\\U000104ec",
      "\\U000104ed", "\\U000104ee", "\\U000104ef", "\\U000104f0",
      "\\U000104f1", "\\U000104f2", "\\U000104f3", "\\U000104f4",
      "\\U000104f5", "\\U000104f6", "\\U000104f7", "\\U000104f8",
      "\\U000104f9", "\\U000104fa", "\\U000104fb", "\\U00010597",
      "\\U00010598", "\\U00010599", "\\U0001059a", "\\U0001059b",
      "\\U0001059c", "\\U0001059d", "\\U0001059e", "\\U0001059f",
      "\\U000105a0", "\\U000105a1", "\\U000105a3", "\\U000105a4",
      "\\U000105a5", "\\U000105a6", "\\U000105a7", "\\U000105a8",
      "\\U000105a9", "\\U000105aa", "\\U000105ab", "\\U000105ac",
      "\\U000105ad", "\\U000105ae", "\\U000105af", "\\U000105b0",
      "\\U000105b1", "\\U000105b3", "\\U000105b4", "\\U000105b5",
      "\\U000105b6", "\\U000105b7", "\\U000105b8", "\\U000105b9",
      "\\U000105bb", "\\U000105bc", "\\U00010cc0", "\\U00010cc1",
      "\\U00010cc2", "\\U00010cc3", "\\U00010cc4", "\\U00010cc5",
      "\\U00010cc6", "\\U00010cc7", "\\U00010cc8", "\\U00010cc9",
      "\\U00010cca", "\\U00010ccb", "\\U00010ccc", "\\U00010ccd",
      "\\U00010cce", "\\U00010ccf", "\\U00010cd0", "\\U00010cd1",
      "\\U00010cd2", "\\U00010cd3", "\\U00010cd4", "\\U00010cd5",
      "\\U00010cd6", "\\U00010cd7", "\\U00010cd8", "\\U00010cd9",
      "\\U00010cda", "\\U00010cdb", "\\U00010cdc", "\\U00010cdd",
      "\\U00010cde", "\\U00010cdf", "\\U00010ce0", "\\U00010ce1",
      "\\U00010ce2", "\\U00010ce3", "\\U00010ce4", "\\U00010ce5",
      "\\U00010ce6", "\\U00010ce7", "\\U00010ce8", "\\U00010ce9",
      "\\U00010cea", "\\U00010ceb", "\\U00010cec", "\\U00010ced",
      "\\U00010cee", "\\U00010cef", "\\U00010cf0", "\\U00010cf1",
      "\\U00010cf2", "\\U000118c0", "\\U000118c1", "\\U000118c2",
      "\\U000118c3", "\\U000118c4", "\\U000118c5", "\\U000118c6",
      "\\U000118c7", "\\U000118c8", "\\U000118c9", "\\U000118ca",
      "\\U000118cb", "\\U000118cc", "\\U000118cd", "\\U000118ce",
      "\\U000118cf", "\\U000118d0", "\\U000118d1", "\\U000118d2",
      "\\U000118d3", "\\U000118d4", "\\U000118d5", "\\U000118d6",
      "\\U000118d7", "\\U000118d8", "\\U000118d9", "\\U000118da",
      "\\U000118db", "\\U000118dc", "\\U000118dd", "\\U000118de",
      "\\U000118df", "\\U00016e60", "\\U00016e61", "\\U00016e62",
      "\\U00016e63", "\\U00016e64", "\\U00016e65", "\\U00016e66",
      "\\U00016e67", "\\U00016e68", "\\U00016e69", "\\U00016e6a",
      "\\U00016e6b", "\\U00016e6c", "\\U00016e6d", "\\U00016e6e",
      "\\U00016e6f", "\\U00016e70", "\\U00016e71", "\\U00016e72",
      "\\U00016e73", "\\U00016e74", "\\U00016e75", "\\U00016e76",
      "\\U00016e77", "\\U00016e78", "\\U00016e79", "\\U00016e7a",
      "\\U00016e7b", "\\U00016e7c", "\\U00016e7d", "\\U00016e7e",
      "\\U00016e7f", "\\U0001e922", "\\U0001e923", "\\U0001e924",
      "\\U0001e925", "\\U0001e926", "\\U0001e927", "\\U0001e928",
      "\\U0001e929", "\\U0001e92a", "\\U0001e92b", "\\U0001e92c",
      "\\U0001e92d", "\\U0001e92e", "\\U0001e92f", "\\U0001e930",
      "\\U0001e931", "\\U0001e932", "\\U0001e933", "\\U0001e934",
      "\\U0001e935", "\\U0001e936", "\\U0001e937", "\\U0001e938",
      "\\U0001e939", "\\U0001e93a", "\\U0001e93b", "\\U0001e93c",
      "\\U0001e93d", "\\U0001e93e", "\\U0001e93f", "\\U0001e940",
      "\\U0001e941", "\\U0001e942", "\\U0001e943">>

\* ... and what each of them becomes (one to three characters)
UpperTo ==
    <<<<"A">>, <<"B">>, <<"C">>, <<"D">>, <<"E">>, <<"F">>, <<"G">>, <<"H">>,
      <<"I">>, <<"J">>, <<"K">>, <<"L">>, <<"M">>, <<"N">>, <<"O">>, <<"P">>,
      <<"Q">>, <<"R">>, <<"S">>, <<"T">>, <<"U">>, <<"V">>, <<"W">>, <<"X">>,
      <<"Y">>, <<"Z">>, <<"Μ">>, <<"S", "S">>, <<"À">>, <<"Á">>, <<"Â">>,
      <<"Ã">>, <<"Ä">>, <<"Å">>, <<"Æ">>, <<"Ç">>, <<"È">>, <<"É">>, <<"Ê">>,
      <<"Ë">>, <<"Ì">>, <<"Í">>, <<"Î">>, <<"Ï">>, <<"Ð">>, <<"Ñ">>, <<"Ò">>,
      <<"Ó">>, <<"Ô">>, <<"Õ">>, <<"Ö">>, <<"Ø">>, <<"Ù">>, <<"Ú">>, <<"Û">>,
      <<"Ü">>, <<"Ý">>, <<"Þ">>, <<"\\u0178">>, <<"\\u0100">>, <<"\\u0102">>,
      <<"\\u0104">>, <<"\\u0106">>, <<"\\u0108">>, <<"\\u010a">>,
      <<"\\u010c">>, <<"\\u010e">>, <<"\\u0110">>, <<"\\u0112">>,
      <<"\\u0114">>, <<"\\u0116">>, <<"\\u0118">>, <<"\\u011a">>,
      <<"\\u011c">>, <<"\\u011e">>, <<"\\u0120">>, <<"\\u0122">>,
      <<"\\u0124">>, <<"\\u0126">>, <<"\\u0128">>, <<"\\u012a">>,
      <<"\\u012c">>, <<"\\u012e">>, <<"I">>, <<"\\u0132">>, <<"\\u0134">>,
      <<"\\u0136">>, <<"\\u0139">>, <<"\\u013b">>, <<"\\u013d">>,
      <<"\\u013f">>, <<"\\u0141">>, <<"\\u0143">>, <<"\\u0145">>,
      <<"\\u0147">>, <<"ʼ", "N">>, <<"\\u014a">>, <<"\\u014c">>,
      <<"\\u014e">>, <<"\\u0150">>, <<"\\u0152">>, <<"\\u0154">>,
      <<"\\u0156">>, <<"\\u0158">>, <<"\\u015a">>, <<"\\u015c">>,
      <<"\\u015e">>, <<"\\u0160">>, <<"\\u0162">>, <<"\\u0164">>,
      <<"\\u0166">>, <<"\\u0168">>, <<"\\u016a">>, <<"\\u016c">>,
      <<"\\u016e">>, <<"\\u0170">>, <<"\\u0172">>, <<"\\u0174">>,
      <<"\\u0176">>, <<"\\u0179">>, <<"\\u017b">>, <<"\\u017d">>, <<"S">>,
      <<"\\u0243">>, <<"Ƃ">>, <<"Ƅ">>, <<"Ƈ">>, <<"Ƌ">>, <<"Ƒ">>, <<"Ƕ">>,
      <<"Ƙ">>, <<"\\u023d">>, <<"\\u0220">>, <<"Ơ">>, <<"Ƣ">>, <<"Ƥ">>,
      <<"Ƨ">>, <<"Ƭ">>, <<"Ư">>, <<"Ƴ">>, <<"Ƶ">>, <<"Ƹ">>, <<"Ƽ">>, <<"Ƿ">>,
      <<"Ǆ">>, <<"Ǆ">>, <<"Ǉ">>, <<"Ǉ">>, <<"Ǌ">>, <<"Ǌ">>, <<"Ǎ">>, <<"Ǐ">>,
      <<"Ǒ">>, <<"Ǔ">>, <<"Ǖ">>, <<"Ǘ">>, <<"Ǚ">>, <<"Ǜ">>, <<"Ǝ">>, <<"Ǟ">>,
      <<"Ǡ">>, <<"Ǣ">>, <<"Ǥ">>, <<"Ǧ">>, <<"Ǩ">>, <<"Ǫ">>, <<"Ǭ">>, <<"Ǯ">>,
      <<"J", "\\u030c">>, <<"Ǳ">>, <<"Ǳ">>, <<"Ǵ">>, <<"Ǹ">>, <<"Ǻ">>,
      <<"Ǽ">>, <<"Ǿ">>, <<"\\u0200">>, <<"\\u0202">>, <<"\\u0204">>,
      <<"\\u0206">>, <<"\\u0208">>, <<"\\u020a">>, <<"\\u020c">>,
      <<"\\u020e">>, <<"\\u0210">>, <<"\\u0212">>, <<"\\u0214">>,
      <<"\\u0216">>, <<"\\u0218">>, <<"\\u021a">>, <<"\\u021c">>,
      <<"\\u021e">>, <<"\\u0222">>, <<"\\u0224">>, <<"\\u0226">>,
      <<"\\u0228">>, <<"\\u022a">>, <<"\\u022c">>, <<"\\u022e">>,
      <<"\\u0230">>, <<"\\u0232">>, <<"\\u023b">>, <<"\\u2c7e">>,
      <<"\\u2c7f">>, <<"\\u0241">>, <<"\\u0246">>, <<"\\u0248">>,
      <<"\\u024a">>, <<"\\u024c">>, <<"\\u024e">>, <<"\\u2c6f">>,
      <<"\\u2c6d">>, <<"\\u2c70">>, <<"Ɓ">>, <<"Ɔ">>, <<"Ɖ">>, <<"Ɗ">>,
      <<"Ə">>, <<"Ɛ">>, <<"Ɜ">>, <<"Ɠ">>, <<"Ɡ">>, <<"Ɣ">>, <<"Ɥ">>, <<"Ɦ">>,
      <<"Ɨ">>, <<"Ɩ">>, <<"Ɪ">>, <<"\\u2c62">>, <<"Ɬ">>, <<"Ɯ">>,
      <<"\\u2c6e">>, <<"Ɲ">>, <<"Ɵ">>, <<"\\u2c64">>, <<"Ʀ">>, <<"Ʂ">>,
      <<"Ʃ">>, <<"Ʇ">>, <<"Ʈ">>, <<"\\u0244">>, <<"Ʊ">>, <<"Ʋ">>,
      <<"\\u0245">>, <<"Ʒ">>, <<"Ʝ">>, <<"Ʞ">>, <<"Ι">>, <<"\\u0370">>,
      <<"\\u0372">>, <<"\\u0376">>, <<"Ͻ">>, <<"Ͼ">>, <<"Ͽ">>,
      <<"Ι", "\\u0308", "\\u0301">>, <<"Ά">>, <<"Έ">>, <<"Ή">>, <<"Ί">>,
      <<"Υ", "\\u0308", "\\u0301">>, <<"Α">>, <<"Β">>, <<"Γ">>, <<"Δ">>,
      <<"Ε">>, <<"Ζ">>, <<"Η">>, <<"Θ">>, <<"Ι">>, <<"Κ">>, <<"Λ">>, <<"Μ">>,
      <<"Ν">>, <<"Ξ">>, <<"Ο">>, <<"Π">>, <<"Ρ">>, <<"Σ">>, <<"Σ">>, <<"Τ">>,
      <<"Υ">>, <<"Φ">>, <<"Χ">>, <<"Ψ">>, <<"Ω">>, <<"Ϊ">>, <<"Ϋ">>, <<"Ό">>,
      <<"Ύ">>, <<"Ώ">>, <<"Β">>, <<"Θ">>, <<"Φ">>, <<"Π">>, <<"Ϗ">>, <<"Ϙ">>,
      <<"Ϛ">>, <<"Ϝ">>, <<"Ϟ">>, <<"Ϡ">>, <<"Ϣ">>, <<"Ϥ">>, <<"Ϧ">>, <<"Ϩ">>,
      <<"Ϫ">>, <<"Ϭ">>, <<"Ϯ">>, <<"Κ">>, <<"Ρ">>, <<"Ϲ">>, <<"\\u037f">>,
      <<"Ε">>, <<"Ϸ">>, <<"Ϻ">>, <<"\\u0410">>, <<"\\u0411">>, <<"\\u0412">>,
      <<"\\u0413">>, <<"\\u0414">>, <<"\\u0415">>, <<"\\u0416">>,
      <<"\\u0417">>, <<"\\u0418">>, <<"\\u0419">>, <<"\\u041a">>,
      <<"\\u041b">>, <<"\\u041c">>, <<"\\u041d">>, <<"\\u041e">>,
      <<"\\u041f">>, <<"\\u0420">>, <<"\\u0421">>, <<"\\u0422">>,
      <<"\\u0423">>, <<"\\u0424">>, <<"\\u0425">>, <<"\\u0426">>,
      <<"\\u0427">>, <<"\\u0428">>, <<"\\u0429">>, <<"\\u042a">>,
      <<"\\u042b">>, <<"\\u042c">>, <<"\\u042d">>, <<"\\u042e">>,
      <<"\\u042f">>, <<"\\u0400">>, <<"\\u0401">>, <<"\\u0402">>,
      <<"\\u0403">>, <<"\\u0404">>, <<"\\u0405">>, <<"\\u0406">>,
      <<"\\u0407">>, <<"\\u0408">>, <<"\\u0409">>, <<"\\u040a">>,
      <<"\\u040b">>, <<"\\u040c">>, <<"\\u040d">>, <<"\\u040e">>,
      <<"\\u040f">>, <<"\\u0460">>, <<"\\u0462">>, <<"\\u0464">>,
      <<"\\u0466">>, <<"\\u0468">>, <<"\\u046a">>, <<"\\u046c">>,
      <<"\\u046e">>, <<"\\u0470">>, <<"\\u0472">>, <<"\\u0474">>,
      <<"\\u0476">>, <<"\\u0478">>, <<"\\u047a">>, <<"\\u047c">>,
      <<"\\u047e">>, <<"Ҁ">>, <<"Ҋ">>, <<"Ҍ">>, <<"Ҏ">>, <<"Ґ">>, <<"Ғ">>,
      <<"Ҕ">>, <<"Җ">>, <<"Ҙ">>, <<"Қ">>, <<"Ҝ">>, <<"Ҟ">>, <<"Ҡ">>, <<"Ң">>,
      <<"Ҥ">>, <<"Ҧ">>, <<"Ҩ">>, <<"Ҫ">>, <<"Ҭ">>, <<"Ү">>, <<"Ұ">>, <<"Ҳ">>,
      <<"Ҵ">>, <<"Ҷ">>, <<"Ҹ">>, <<"Һ">>, <<"Ҽ">>, <<"Ҿ">>, <<"Ӂ">>, <<"Ӄ">>,
      <<"Ӆ">>, <<"Ӈ">>, <<"Ӊ">>, <<"Ӌ">>, <<"Ӎ">>, <<"Ӏ">>, <<"Ӑ">>, <<"Ӓ">>,
      <<"Ӕ">>, <<"Ӗ">>, <<"Ә">>, <<"Ӛ">>, <<"Ӝ">>, <<"Ӟ">>, <<"Ӡ">>, <<"Ӣ">>,
      <<"Ӥ">>, <<"Ӧ">>, <<"Ө">>, <<"Ӫ">>, <<"Ӭ">>, <<"Ӯ">>, <<"Ӱ">>, <<"Ӳ">>,
      <<"Ӵ">>, <<"Ӷ">>, <<"Ӹ">>, <<"Ӻ">>, <<"Ӽ">>, <<"Ӿ">>, <<"\\u0500">>,
      <<"\\u0502">>, <<"\\u0504">>, <<"\\u0506">>, <<"\\u0508">>,
      <<"\\u050a">>, <<"\\u050c">>, <<"\\u050e">>, <<"\\u0510">>,
      <<"\\u0512">>, <<"\\u0514">>, <<"\\u0516">>, <<"\\u0518">>,
      <<"\\u051a">>, <<"\\u051c">>, <<"\\u051e">>, <<"\\u0520">>,
      <<"\\u0522">>, <<"\\u0524">>, <<"\\u0526">>, <<"\\u0528">>,
      <<"\\u052a">>, <<"\\u052c">>, <<"\\u052e">>, <<"\\u0531">>,
      <<"\\u0532">>, <<"\\u0533">>, <<"\\u0534">>, <<"\\u0535">>,
      <<"\\u0536">>, <<"\\u0537">>, <<"\\u0538">>, <<"\\u0539">>,
      <<"\\u053a">>, <<"\\u053b">>, <<"\\u053c">>, <<"\\u053d">>,
      <<"\\u053e">>, <<"\\u053f">>, <<"\\u0540">>, <<"\\u0541">>,
      <<"\\u0542">>, <<"\\u0543">>, <<"\\u0544">>, <<"\\u0545">>,
      <<"\\u0546">>, <<"\\u0547">>, <<"\\u0548">>, <<"\\u0549">>,
      <<"\\u054a">>, <<"\\u054b">>, <<"\\u054c">>, <<"\\u054d">>,
      <<"\\u054e">>, <<"\\u054f">>, <<"\\u0550">>, <<"\\u0551">>,
      <<"\\u0552">>, <<"\\u0553">>, <<"\\u0554">>, <<"\\u0555">>,
      <<"\\u0556">>, <<"\\u0535", "\\u0552">>, <<"Ა">>, <<"Ბ">>, <<"Გ">>,
      <<"Დ">>, <<"Ე">>, <<"Ვ">>, <<"Ზ">>, <<"Თ">>, <<"Ი">>, <<"Კ">>, <<"Ლ">>,
      <<"Მ">>, <<"Ნ">>, <<"Ო">>, <<"Პ">>, <<"Ჟ">>, <<"Რ">>, <<"Ს">>, <<"Ტ">>,
      <<"Უ">>, <<"Ფ">>, <<"Ქ">>, <<"Ღ">>, <<"Ყ">>, <<"Შ">>, <<"Ჩ">>, <<"Ც">>,
      <<"Ძ">>, <<"Წ">>, <<"Ჭ">>, <<"Ხ">>, <<"Ჯ">>, <<"Ჰ">>, <<"Ჱ">>, <<"Ჲ">>,
      <<"Ჳ">>, <<"Ჴ">>, <<"Ჵ">>, <<"Ჶ">>, <<"Ჷ">>, <<"Ჸ">>, <<"Ჹ">>, <<"Ჺ">>,
      <<"Ჽ">>, <<"Ჾ">>, <<"Ჿ">>, <<"Ᏸ">>, <<"Ᏹ">>, <<"Ᏺ">>, <<"Ᏻ">>, <<"Ᏼ">>,
      <<"Ᏽ">>, <<"\\u0412">>, <<"\\u0414">>, <<"\\u041e">>, <<"\\u0421">>,
      <<"\\u0422">>, <<"\\u0422">>, <<"\\u042a">>, <<"\\u0462">>,
      <<"\\ua64a">>, <<"\\ua77d">>, <<"\\u2c63">>, <<"Ᶎ">>, <<"\\u1e00">>,
      <<"\\u1e02">>, <<"\\u1e04">>, <<"\\u1e06">>, <<"\\u1e08">>,
      <<"\\u1e0a">>, <<"\\u1e0c">>, <<"\\u1e0e">>, <<"\\u1e10">>,
      <<"\\u1e12">>, <<"\\u1e14">>, <<"\\u1e16">>, <<"\\u1e18">>,
      <<"\\u1e1a">>, <<"\\u1e1c">>, <<"\\u1e1e">>, <<"\\u1e20">>,
      <<"\\u1e22">>, <<"\\u1e24">>, <<"\\u1e26">>, <<"\\u1e28">>,
      <<"\\u1e2a">>, <<"\\u1e2c">>, <<"\\u1e2e">>, <<"\\u1e30">>,
      <<"\\u1e32">>, <<"\\u1e34">>, <<"\\u1e36">>, <<"\\u1e38">>,
      <<"\\u1e3a">>, <<"\\u1e3c">>, <<"\\u1e3e">>, <<"\\u1e40">>,
      <<"\\u1e42">>, <<"\\u1e44">>, <<"\\u1e46">>, <<"\\u1e48">>,
      <<"\\u1e4a">>, <<"\\u1e4c">>, <<"\\u1e4e">>, <<"\\u1e50">>,
      <<"\\u1e52">>, <<"\\u1e54">>, <<"\\u1e56">>, <<"\\u1e58">>,
      <<"\\u1e5a">>, <<"\\u1e5c">>, <<"\\u1e5e">>, <<"\\u1e60">>,
      <<"\\u1e62">>, <<"\\u1e64">>, <<"\\u1e66">>, <<"\\u1e68">>,
      <<"\\u1e6a">>, <<"\\u1e6c">>, <<"\\u1e6e">>, <<"\\u1e70">>,
      <<"\\u1e72">>, <<"\\u1e74">>, <<"\\u1e76">>, <<"\\u1e78">>,
      <<"\\u1e7a">>, <<"\\u1e7c">>, <<"\\u1e7e">>, <<"Ẁ">>, <<"Ẃ">>, <<"Ẅ">>,
      <<"Ẇ">>, <<"Ẉ">>, <<"Ẋ">>, <<"Ẍ">>, <<"Ẏ">>, <<"Ẑ">>, <<"Ẓ">>, <<"Ẕ">>,
      <<"H", "\\u0331">>, <<"T", "\\u0308">>, <<"W", "\\u030a">>,
      <<"Y", "\\u030a">>, <<"A", "ʾ">>, <<"\\u1e60">>, <<"Ạ">>, <<"Ả">>,
      <<"Ấ">>, <<"Ầ">>, <<"Ẩ">>, <<"Ẫ">>, <<"Ậ">>, <<"Ắ">>, <<"Ằ">>, <<"Ẳ">>,
      <<"Ẵ">>, <<"Ặ">>, <<"Ẹ">>, <<"Ẻ">>, <<"Ẽ">>, <<"Ế">>, <<"Ề">>, <<"Ể">>,
      <<"Ễ">>, <<"Ệ">>, <<"Ỉ">>, <<"Ị">>, <<"Ọ">>, <<"Ỏ">>, <<"Ố">>, <<"Ồ">>,
      <<"Ổ">>, <<"Ỗ">>, <<"Ộ">>, <<"Ớ">>, <<"Ờ">>, <<"Ở">>, <<"Ỡ">>, <<"Ợ">>,
      <<"Ụ">>, <<"Ủ">>, <<"Ứ">>, <<"Ừ">>, <<"Ử">>, <<"Ữ">>, <<"Ự">>, <<"Ỳ">>,
      <<"Ỵ">>, <<"Ỷ">>, <<"Ỹ">>, <<"Ỻ">>, <<"Ỽ">>, <<"Ỿ">>, <<"\\u1f08">>,
      <<"\\u1f09">>, <<"\\u1f0a">>, <<"\\u1f0b">>, <<"\\u1f0c">>,
      <<"\\u1f0d">>, <<"\\u1f0e">>, <<"\\u1f0f">>, <<"\\u1f18">>,
      <<"\\u1f19">>, <<"\\u1f1a">>, <<"\\u1f1b">>, <<"\\u1f1c">>,
      <<"\\u1f1d">>, <<"\\u1f28">>, <<"\\u1f29">>, <<"\\u1f2a">>,
      <<"\\u1f2b">>, <<"\\u1f2c">>, <<"\\u1f2d">>, <<"\\u1f2e">>,
      <<"\\u1f2f">>, <<"\\u1f38">>, <<"\\u1f39">>, <<"\\u1f3a">>,
      <<"\\u1f3b">>, <<"\\u1f3c">>, <<"\\u1f3d">>, <<"\\u1f3e">>,
      <<"\\u1f3f">>, <<"\\u1f48">>, <<"\\u1f49">>, <<"\\u1f4a">>,
      <<"\\u1f4b">>, <<"\\u1f4c">>, <<"\\u1f4d">>, <<"Υ", "\\u0313">>,
      <<"\\u1f59">>, <<"Υ", "\\u0313", "\\u0300">>, <<"\\u1f5b">>,
      <<"Υ", "\\u0313", "\\u0301">>, <<"\\u1f5d">>,
      <<"Υ", "\\u0313", "\\u0342">>, <<"\\u1f5f">>, <<"\\u1f68">>,
      <<"\\u1f69">>, <<"\\u1f6a">>, <<"\\u1f6b">>, <<"\\u1f6c">>,
      <<"\\u1f6d">>, <<"\\u1f6e">>, <<"\\u1f6f">>, <<"Ὰ">>, <<"Ά">>, <<"Ὲ">>,
      <<"Έ">>, <<"Ὴ">>, <<"Ή">>, <<"Ὶ">>, <<"Ί">>, <<"Ὸ">>, <<"Ό">>, <<"Ὺ">>,
      <<"Ύ">>, <<"Ὼ">>, <<"Ώ">>, <<"\\u1f08", "Ι">>, <<"\\u1f09", "Ι">>,
      <<"\\u1f0a", "Ι">>, <<"\\u1f0b", "Ι">>, <<"\\u1f0c", "Ι">>,
      <<"\\u1f0d", "Ι">>, <<"\\u1f0e", "Ι">>, <<"\\u1f0f", "Ι">>,
      <<"\\u1f08", "Ι">>, <<"\\u1f09", "Ι">>, <<"\\u1f0a", "Ι">>,
      <<"\\u1f0b", "Ι">>, <<"\\u1f0c", "Ι">>, <<"\\u1f0d", "Ι">>,
      <<"\\u1f0e", "Ι">>, <<"\\u1f0f", "Ι">>, <<"\\u1f28", "Ι">>,
      <<"\\u1f29", "Ι">>, <<"\\u1f2a", "Ι">>, <<"\\u1f2b", "Ι">>,
      <<"\\u1f2c", "Ι">>, <<"\\u1f2d", "Ι">>, <<"\\u1f2e", "Ι">>,
      <<"\\u1f2f", "Ι">>, <<"\\u1f28", "Ι">>, <<"\\u1f29", "Ι">>,
      <<"\\u1f2a", "Ι">>, <<"\\u1f2b", "Ι">>, <<"\\u1f2c", "Ι">>,
      <<"\\u1f2d", "Ι">>, <<"\\u1f2e", "Ι">>, <<"\\u1f2f", "Ι">>,
      <<"\\u1f68", "Ι">>, <<"\\u1f69", "Ι">>, <<"\\u1f6a", "Ι">>,
      <<"\\u1f6b", "Ι">>, <<"\\u1f6c", "Ι">>, <<"\\u1f6d", "Ι">>,
      <<"\\u1f6e", "Ι">>, <<"\\u1f6f", "Ι">>, <<"\\u1f68", "Ι">>,
      <<"\\u1f69", "Ι">>, <<"\\u1f6a", "Ι">>, <<"\\u1f6b", "Ι">>,
      <<"\\u1f6c", "Ι">>, <<"\\u1f6d", "Ι">>, <<"\\u1f6e", "Ι">>,
      <<"\\u1f6f", "Ι">>, <<"Ᾰ">>, <<"Ᾱ">>, <<"Ὰ", "Ι">>, <<"Α", "Ι">>,
      <<"Ά", "Ι">>, <<"Α", "\\u0342">>, <<"Α", "\\u0342", "Ι">>,
      <<"Α", "Ι">>, <<"Ι">>, <<"Ὴ", "Ι">>, <<"Η", "Ι">>, <<"Ή", "Ι">>,
      <<"Η", "\\u0342">>, <<"Η", "\\u0342", "Ι">>, <<"Η", "Ι">>, <<"Ῐ">>,
      <<"Ῑ">>, <<"Ι", "\\u0308", "\\u0300">>, <<"Ι", "\\u0308", "\\u0301">>,
      <<"Ι", "\\u0342">>, <<"Ι", "\\u0308", "\\u0342">>, <<"Ῠ">>, <<"Ῡ">>,
      <<"Υ", "\\u0308", "\\u0300">>, <<"Υ", "\\u0308", "\\u0301">>,
      <<"Ρ", "\\u0313">>, <<"Ῥ">>, <<"Υ", "\\u0342">>,
      <<"Υ", "\\u0308", "\\u0342">>, <<"Ὼ", "Ι">>, <<"Ω", "Ι">>,
      <<"Ώ", "Ι">>, <<"Ω", "\\u0342">>, <<"Ω", "\\u0342", "Ι">>,
      <<"Ω", "Ι">>, <<"\\u2132">>, <<"\\u2160">>, <<"\\u2161">>,
      <<"\\u2162">>, <<"\\u2163">>, <<"\\u2164">>, <<"\\u2165">>,
      <<"\\u2166">>, <<"\\u2167">>, <<"\\u2168">>, <<"\\u2169">>,
      <<"\\u216a">>, <<"\\u216b">>, <<"\\u216c">>, <<"\\u216d">>,
      <<"\\u216e">>, <<"\\u216f">>, <<"Ↄ">>, <<"Ⓐ">>, <<"Ⓑ">>, <<"Ⓒ">>,
      <<"Ⓓ">>, <<"Ⓔ">>, <<"Ⓕ">>, <<"Ⓖ">>, <<"Ⓗ">>, <<"Ⓘ">>, <<"Ⓙ">>, <<"Ⓚ">>,
      <<"Ⓛ">>, <<"Ⓜ">>, <<"Ⓝ">>, <<"Ⓞ">>, <<"Ⓟ">>, <<"Ⓠ">>, <<"Ⓡ">>, <<"Ⓢ">>,
      <<"Ⓣ">>, <<"Ⓤ">>, <<"Ⓥ">>, <<"Ⓦ">>, <<"Ⓧ">>, <<"Ⓨ">>, <<"Ⓩ">>,
      <<"\\u2c00">>, <<"\\u2c01">>, <<"\\u2c02">>, <<"\\u2c03">>,
      <<"\\u2c04">>, <<"\\u2c05">>, <<"\\u2c06">>, <<"\\u2c07">>,
      <<"\\u2c08">>, <<"\\u2c09">>, <<"\\u2c0a">>, <<"\\u2c0b">>,
      <<"\\u2c0c">>, <<"\\u2c0d">>, <<"\\u2c0e">>, <<"\\u2c0f">>,
      <<"\\u2c10">>, <<"\\u2c11">>, <<"\\u2c12">>, <<"\\u2c13">>,
      <<"\\u2c14">>, <<"\\u2c15">>, <<"\\u2c16">>, <<"\\u2c17">>,
      <<"\\u2c18">>, <<"\\u2c19">>, <<"\\u2c1a">>, <<"\\u2c1b">>,
      <<"\\u2c1c">>, <<"\\u2c1d">>, <<"\\u2c1e">>, <<"\\u2c1f">>,
      <<"\\u2c20">>, <<"\\u2c21">>, <<"\\u2c22">>, <<"\\u2c23">>,
      <<"\\u2c24">>, <<"\\u2c25">>, <<"\\u2c26">>, <<"\\u2c27">>,
      <<"\\u2c28">>, <<"\\u2c29">>, <<"\\u2c2a">>, <<"\\u2c2b">>,
      <<"\\u2c2c">>, <<"\\u2c2d">>, <<"\\u2c2e">>, <<"\\u2c2f">>,
      <<"\\u2c60">>, <<"\\u023a">>, <<"\\u023e">>, <<"\\u2c67">>,
      <<"\\u2c69">>, <<"\\u2c6b">>, <<"\\u2c72">>, <<"\\u2c75">>, <<"Ⲁ">>,
      <<"Ⲃ">>, <<"Ⲅ">>, <<"Ⲇ">>, <<"Ⲉ">>, <<"Ⲋ">>, <<"Ⲍ">>, <<"Ⲏ">>, <<"Ⲑ">>,
      <<"Ⲓ">>, <<"Ⲕ">>, <<"Ⲗ">>, <<"Ⲙ">>, <<"Ⲛ">>, <<"Ⲝ">>, <<"Ⲟ">>, <<"Ⲡ">>,
      <<"Ⲣ">>, <<"Ⲥ">>, <<"Ⲧ">>, <<"Ⲩ">>, <<"Ⲫ">>, <<"Ⲭ">>, <<"Ⲯ">>, <<"Ⲱ">>,
      <<"Ⲳ">>, <<"Ⲵ">>, <<"Ⲷ">>, <<"Ⲹ">>, <<"Ⲻ">>, <<"Ⲽ">>, <<"Ⲿ">>, <<"Ⳁ">>,
      <<"Ⳃ">>, <<"Ⳅ">>, <<"Ⳇ">>, <<"Ⳉ">>, <<"Ⳋ">>, <<"Ⳍ">>, <<"Ⳏ">>, <<"Ⳑ">>,
      <<"Ⳓ">>, <<"Ⳕ">>, <<"Ⳗ">>, <<"Ⳙ">>, <<"Ⳛ">>, <<"Ⳝ">>, <<"Ⳟ">>, <<"Ⳡ">>,
      <<"Ⳣ">>, <<"Ⳬ">>, <<"Ⳮ">>, <<"Ⳳ">>, <<"Ⴀ">>, <<"Ⴁ">>, <<"Ⴂ">>, <<"Ⴃ">>,
      <<"Ⴄ">>, <<"Ⴅ">>, <<"Ⴆ">>, <<"Ⴇ">>, <<"Ⴈ">>, <<"Ⴉ">>, <<"Ⴊ">>, <<"Ⴋ">>,
      <<"Ⴌ">>, <<"Ⴍ">>, <<"Ⴎ">>, <<"Ⴏ">>, <<"Ⴐ">>, <<"Ⴑ">>, <<"Ⴒ">>, <<"Ⴓ">>,
      <<"Ⴔ">>, <<"Ⴕ">>, <<"Ⴖ">>, <<"Ⴗ">>, <<"Ⴘ">>, <<"Ⴙ">>, <<"Ⴚ">>, <<"Ⴛ">>,
      <<"Ⴜ">>, <<"Ⴝ">>, <<"Ⴞ">>, <<"Ⴟ">>, <<"Ⴠ">>, <<"Ⴡ">>, <<"Ⴢ">>, <<"Ⴣ">>,
      <<"Ⴤ">>, <<"Ⴥ">>, <<"Ⴧ">>, <<"Ⴭ">>, <<"\\ua640">>, <<"\\ua642">>,
      <<"\\ua644">>, <<"\\ua646">>, <<"\\ua648">>, <<"\\ua64a">>,
      <<"\\ua64c">>, <<"\\ua64e">>, <<"\\ua650">>, <<"\\ua652">>,
      <<"\\ua654">>, <<"\\ua656">>, <<"\\ua658">>, <<"\\ua65a">>,
      <<"\\ua65c">>, <<"\\ua65e">>, <<"\\ua660">>, <<"\\ua662">>,
      <<"\\ua664">>, <<"\\ua666">>, <<"\\ua668">>, <<"\\ua66a">>,
      <<"\\ua66c">>, <<"Ꚁ">>, <<"Ꚃ">>, <<"Ꚅ">>, <<"Ꚇ">>, <<"Ꚉ">>, <<"Ꚋ">>,
      <<"Ꚍ">>, <<"Ꚏ">>, <<"Ꚑ">>, <<"Ꚓ">>, <<"Ꚕ">>, <<"Ꚗ">>, <<"Ꚙ">>, <<"Ꚛ">>,
      <<"\\ua722">>, <<"\\ua724">>, <<"\\ua726">>, <<"\\ua728">>,
      <<"\\ua72a">>, <<"\\ua72c">>, <<"\\ua72e">>, <<"\\ua732">>,
      <<"\\ua734">>, <<"\\ua736">>, <<"\\ua738">>, <<"\\ua73a">>,
      <<"\\ua73c">>, <<"\\ua73e">>, <<"\\ua740">>, <<"\\ua742">>,
      <<"\\ua744">>, <<"\\ua746">>, <<"\\ua748">>, <<"\\ua74a">>,
      <<"\\ua74c">>, <<"\\ua74e">>, <<"\\ua750">>, <<"\\ua752">>,
      <<"\\ua754">>, <<"\\ua756">>, <<"\\ua758">>, <<"\\ua75a">>,
      <<"\\ua75c">>, <<"\\ua75e">>, <<"\\ua760">>, <<"\\ua762">>,
      <<"\\ua764">>, <<"\\ua766">>, <<"\\ua768">>, <<"\\ua76a">>,
      <<"\\ua76c">>, <<"\\ua76e">>, <<"\\ua779">>, <<"\\ua77b">>,
      <<"\\ua77e">>, <<"Ꞁ">>, <<"Ꞃ">>, <<"Ꞅ">>, <<"Ꞇ">>, <<"Ꞌ">>, <<"Ꞑ">>,
      <<"Ꞓ">>, <<"Ꞔ">>, <<"Ꞗ">>, <<"Ꞙ">>, <<"Ꞛ">>, <<"Ꞝ">>, <<"Ꞟ">>, <<"Ꞡ">>,
      <<"Ꞣ">>, <<"Ꞥ">>, <<"Ꞧ">>, <<"Ꞩ">>, <<"Ꞵ">>, <<"Ꞷ">>, <<"Ꞹ">>, <<"Ꞻ">>,
      <<"Ꞽ">>, <<"Ꞿ">>, <<"Ꟁ">>, <<"Ꟃ">>, <<"Ꟈ">>, <<"Ꟊ">>, <<"Ꟑ">>, <<"Ꟗ">>,
      <<"Ꟙ">>, <<"Ꟶ">>, <<"Ꭓ">>, <<"Ꭰ">>, <<"Ꭱ">>, <<"Ꭲ">>, <<"Ꭳ">>, <<"Ꭴ">>,
      <<"Ꭵ">>, <<"Ꭶ">>, <<"Ꭷ">>, <<"Ꭸ">>, <<"Ꭹ">>, <<"Ꭺ">>, <<"Ꭻ">>, <<"Ꭼ">>,
      <<"Ꭽ">>, <<"Ꭾ">>, <<"Ꭿ">>, <<"Ꮀ">>, <<"Ꮁ">>, <<"Ꮂ">>, <<"Ꮃ">>, <<"Ꮄ">>,
      <<"Ꮅ">>, <<"Ꮆ">>, <<"Ꮇ">>, <<"Ꮈ">>, <<"Ꮉ">>, <<"Ꮊ">>, <<"Ꮋ">>, <<"Ꮌ">>,
      <<"Ꮍ">>, <<"Ꮎ">>, <<"Ꮏ">>, <<"Ꮐ">>, <<"Ꮑ">>, <<"Ꮒ">>, <<"Ꮓ">>, <<"Ꮔ">>,
      <<"Ꮕ">>, <<"Ꮖ">>, <<"Ꮗ">>, <<"Ꮘ">>, <<"Ꮙ">>, <<"Ꮚ">>, <<"Ꮛ">>, <<"Ꮜ">>,
      <<"Ꮝ">>, <<"Ꮞ">>, <<"Ꮟ">>, <<"Ꮠ">>, <<"Ꮡ">>, <<"Ꮢ">>, <<"Ꮣ">>, <<"Ꮤ">>,
      <<"Ꮥ">>, <<"Ꮦ">>, <<"Ꮧ">>, <<"Ꮨ">>, <<"Ꮩ">>, <<"Ꮪ">>, <<"Ꮫ">>, <<"Ꮬ">>,
      <<"Ꮭ">>, <<"Ꮮ">>, <<"Ꮯ">>, <<"Ꮰ">>, <<"Ꮱ">>, <<"Ꮲ">>, <<"Ꮳ">>, <<"Ꮴ">>,
      <<"Ꮵ">>, <<"Ꮶ">>, <<"Ꮷ">>, <<"Ꮸ">>, <<"Ꮹ">>, <<"Ꮺ">>, <<"Ꮻ">>, <<"Ꮼ">>,
      <<"Ꮽ">>, <<"Ꮾ">>, <<"Ꮿ">>, <<"F", "F">>, <<"F", "I">>, <<"F", "L">>,
      <<"F", "F", "I">>, <<"F", "F", "L">>, <<"S", "T">>, <<"S", "T">>,
      <<"\\u0544", "\\u0546">>, <<"\\u0544", "\\u0535">>,
      <<"\\u0544", "\\u053b">>, <<"\\u054e", "\\u0546">>,
      <<"\\u0544", "\\u053d">>, <<"\\uff21">>, <<"\\uff22">>, <<"\\uff23">>,
      <<"\\uff24">>, <<"\\uff25">>, <<"\\uff26">>, <<"\\uff27">>,
      <<"\\uff28">>, <<"\\uff29">>, <<"\\uff2a">>, <<"\\uff2b">>,
      <<"\\uff2c">>, <<"\\uff2d">>, <<"\\uff2e">>, <<"\\uff2f">>,
      <<"\\uff30">>, <<"\\uff31">>, <<"\\uff32">>, <<"\\uff33">>,
      <<"\\uff34">>, <<"\\uff35">>, <<"\\uff36">>, <<"\\uff37">>,
      <<"\\uff38">>, <<"\\uff39">>, <<"\\uff3a">>, <<"\\U00010400">>,
      <<"\\U00010401">>, <<"\\U00010402">>, <<"\\U00010403">>,
      <<"\\U00010404">>, <<"\\U00010405">>, <<"\\U00010406">>,
      <<"\\U00010407">>, <<"\\U00010408">>, <<"\\U00010409">>,
      <<"\\U0001040a">>, <<"\\U0001040b">>, <<"\\U0001040c">>,
      <<"\\U0001040d">>, <<"\\U0001040e">>, <<"\\U0001040f">>,
      <<"\\U00010410">>, <<"\\U00010411">>, <<"\\U00010412">>,
      <<"\\U00010413">>, <<"\\U00010414">>, <<"\\U00010415">>,
      <<"\\U00010416">>, <<"\\U00010417">>, <<"\\U00010418">>,
      <<"\\U00010419">>, <<"\\U0001041a">>, <<"\\U0001041b">>,
      <<"\\U0001041c">>, <<"\\U0001041d">>, <<"\\U0001041e">>,
      <<"\\U0001041f">>, <<"\\U00010420">>, <<"\\U00010421">>,
      <<"\\U00010422">>, <<"\\U00010423">>, <<"\\U00010424">>,
      <<"\\U00010425">>, <<"\\U00010426">>, <<"\\U00010427">>,
      <<"\\U000104b0">>, <<"\\U000104b1">>, <<"\\U000104b2">>,
      <<"\\U000104b3">>, <<"\\U000104b4">>, <<"\\U000104b5">>,
      <<"\\U000104b6">>, <<"\\U000104b7">>, <<"\\U000104b8">>,
      <<"\\U000104b9">>, <<"\\U000104ba">>, <<"\\U000104bb">>,
      <<"\\U000104bc">>, <<"\\U000104bd">>, <<"\\U000104be">>,
      <<"\\U000104bf">>, <<"\\U000104c0">>, <<"\\U000104c1">>,
      <<"\\U000104c2">>, <<"\\U000104c3">>, <<"\\U000104c4">>,
      <<"\\U000104c5">>, <<"\\U000104c6">>, <<"\\U000104c7">>,
      <<"\\U000104c8">>, <<"\\U000104c9">>, <<"\\U000104ca">>,
      <<"\\U000104cb">>, <<"\\U000104cc">>, <<"\\U000104cd">>,
      <<"\\U000104ce">>, <<"\\U000104cf">>, <<"\\U000104d0">>,
      <<"\\U000104d1">>, <<"\\U000104d2">>, <<"\\U000104d3">>,
      <<"\\U00010570">>, <<"\\U00010571">>, <<"\\U00010572">>,
      <<"\\U00010573">>, <<"\\U00010574">>, <<"\\U00010575">>,
      <<"\\U00010576">>, <<"\\U00010577">>, <<"\\U00010578">>,
      <<"\\U00010579">>, <<"\\U0001057a">>, <<"\\U0001057c">>,
      <<"\\U0001057d">>, <<"\\U0001057e">>, <<"\\U0001057f">>,
      <<"\\U00010580">>, <<"\\U00010581">>, <<"\\U00010582">>,
      <<"\\U00010583">>, <<"\\U00010584">>, <<"\\U00010585">>,
      <<"\\U00010586">>, <<"\\U00010587">>, <<"\\U00010588">>,
      <<"\\U00010589">>, <<"\\U0001058a">>, <<"\\U0001058c">>,
      <<"\\U0001058d">>, <<"\\U0001058e">>, <<"\\U0001058f">>,
      <<"\\U00010590">>, <<"\\U00010591">>, <<"\\U00010592">>,
      <<"\\U00010594">>, <<"\\U00010595">>, <<"\\U00010c80">>,
      <<"\\U00010c81">>, <<"\\U00010c82">>, <<"\\U00010c83">>,
      <<"\\U00010c84">>, <<"\\U00010c85">>, <<"\\U00010c86">>,
      <<"\\U00010c87">>, <<"\\U00010c88">>, <<"\\U00010c89">>,
      <<"\\U00010c8a">>, <<"\\U00010c8b">>, <<"\\U00010c8c">>,
      <<"\\U00010c8d">>, <<"\\U00010c8e">>, <<"\\U00010c8f">>,
      <<"\\U00010c90">>, <<"\\U00010c91">>, <<"\\U00010c92">>,
      <<"\\U00010c93">>, <<"\\U00010c94">>, <<"\\U00010c95">>,
      <<"\\U00010c96">>, <<"\\U00010c97">>, <<"\\U00010c98">>,
      <<"\\U00010c99">>, <<"\\U00010c9a">>, <<"\\U00010c9b">>,
      <<"\\U00010c9c">>, <<"\\U00010c9d">>, <<"\\U00010c9e">>,
      <<"\\U00010c9f">>, <<"\\U00010ca0">>, <<"\\U00010ca1">>,
      <<"\\U00010ca2">>, <<"\\U00010ca3">>, <<"\\U00010ca4">>,
      <<"\\U00010ca5">>, <<"\\U00010ca6">>, <<"\\U00010ca7">>,
      <<"\\U00010ca8">>, <<"\\U00010ca9">>, <<"\\U00010caa">>,
      <<"\\U00010cab">>, <<"\\U00010cac">>, <<"\\U00010cad">>,
      <<"\\U00010cae">>, <<"\\U00010caf">>, <<"\\U00010cb0">>,
      <<"\\U00010cb1">>, <<"\\U00010cb2">>, <<"\\U000118a0">>,
      <<"\\U000118a1">>, <<"\\U000118a2">>, <<"\\U000118a3">>,
      <<"\\U000118a4">>, <<"\\U000118a5">>, <<"\\U000118a6">>,
      <<"\\U000118a7">>, <<"\\U000118a8">>, <<"\\U000118a9">>,
      <<"\\U000118aa">>, <<"\\U000118ab">>, <<"\\U000118ac">>,
      <<"\\U000118ad">>, <<"\\U000118ae">>, <<"\\U000118af">>,
      <<"\\U000118b0">>, <<"\\U000118b1">>, <<"\\U000118b2">>,
      <<"\\U000118b3">>, <<"\\U000118b4">>, <<"\\U000118b5">>,
      <<"\\U000118b6">>, <<"\\U000118b7">>, <<"\\U000118b8">>,
      <<"\\U000118b9">>, <<"\\U000118ba">>, <<"\\U000118bb">>,
      <<"\\U000118bc">>, <<"\\U000118bd">>, <<"\\U000118be">>,
      <<"\\U000118bf">>, <<"\\U00016e40">>, <<"\\U00016e41">>,
      <<"\\U00016e42">>, <<"\\U00016e43">>, <<"\\U00016e44">>,
      <<"\\U00016e45">>, <<"\\U00016e46">>, <<"\\U00016e47">>,
      <<"\\U00016e48">>, <<"\\U00016e49">>, <<"\\U00016e4a">>,
      <<"\\U00016e4b">>, <<"\\U00016e4c">>, <<"\\U00016e4d">>,
      <<"\\U00016e4e">>, <<"\\U00016e4f">>, <<"\\U00016e50">>,
      <<"\\U00016e51">>, <<"\\U00016e52">>, <<"\\U00016e53">>,
      <<"\\U00016e54">>, <<"\\U00016e55">>, <<"\\U00016e56">>,
      <<"\\U00016e57">>, <<"\\U00016e58">>, <<"\\U00016e59">>,
      <<"\\U00016e5a">>, <<"\\U00016e5b">>, <<"\\U00016e5c">>,
      <<"\\U00016e5d">>, <<"\\U00016e5e">>, <<"\\U00016e5f">>,
      <<"\\U0001e900">>, <<"\\U0001e901">>, <<"\\U0001e902">>,
      <<"\\U0001e903">>, <<"\\U0001e904">>, <<"\\U0001e905">>,
      <<"\\U0001e906">>, <<"\\U0001e907">>, <<"\\U0001e908">>,
      <<"\\U0001e909">>, <<"\\U0001e90a">>, <<"\\U0001e90b">>,
      <<"\\U0001e90c">>, <<"\\U0001e90d">>, <<"\\U0001e90e">>,
      <<"\\U0001e90f">>, <<"\\U0001e910">>, <<"\\U0001e911">>,
      <<"\\U0001e912">>, <<"\\U0001e913">>, <<"\\U0001e914">>,
      <<"\\U0001e915">>, <<"\\U0001e916">>, <<"\\U0001e917">>,
      <<"\\U0001e918">>, <<"\\U0001e919">>, <<"\\U0001e91a">>,
      <<"\\U0001e91b">>, <<"\\U0001e91c">>, <<"\\U0001e91d">>,
      <<"\\U0001e91e">>, <<"\\U0001e91f">>, <<"\\U0001e920">>,
      <<"\\U0001e921">>>>

UpperChanged == {UpperFrom[i] : i \in 1..Len(UpperFrom)}

\* c.upper() of one character, as a string
UpperChar(c) ==
    IF c \in UpperChanged
    THEN UpperTo[CHOOSE i \in 1..Len(UpperFrom) : UpperFrom[i] = c]
    ELSE <<c>>

RECURSIVE Upper(_)
Upper(s) == IF s = <<>> THEN <<>> ELSE UpperChar(Head(s)) \o Upper(Tail(s))

\* s.split(":", 1)[1] for an s that contains a colon
RECURSIVE SplitColon1(_)
SplitColon1(s) ==
    IF s = <<>> THEN <<>>
    ELSE IF Head(s) = ":" THEN Tail(s)
    ELSE SplitColon1(Tail(s))

\* bool(x) of a string or None
Truthy(x) == x # NoneVal /\ x # <<>>

\* ------------------------------------------------------------------------
\* parse_pdf: the line loop
\* ------------------------------------------------------------------------
NumOptions == 4

\* value of the local `correct` before its first assignment
Unbound == 0 - 1

AnswerPrefix == <<"A", "n", "s", "w", "e", "r", ":">>

ExplanationPrefix ==
    <<"E", "x", "p", "l", "a", "n", "a", "t", "i", "o", "n", ":">>

\* variant: any run of digits before ". " opens a question
IsNewQuestionLine_AnyDigits(line) ==
    \E k \in 1..Len(line) :
        /\ \A i \in 1..k : IsDigit(line[i])
        /\ Slice(line, k, k + 2) = <<".", " ">>

IsNewQuestionLine(line) ==
    line # <<>> /\ IsDigit(line[1]) /\ Slice(line, 1, 3) = <<".", " ">>

IsOptionLine(line) ==
    \/ StartsWith(line, <<"A", ")">>)
    \/ StartsWith(line, <<"B", ")">>)
    \/ StartsWith(line, <<"C", ")">>)
    \/ StartsWith(line, <<"D", ")">>)

IsAnswerLine(line) == StartsWith(line, AnswerPrefix)

IsExplanationLine(line) == StartsWith(line, ExplanationPrefix)

OptionValue(line) == Strip(SliceFrom(line, 3))

AnswerTable(letter) ==
    CASE letter = <<"A">> -> 1
      [] letter = <<"B">> -> 2
      [] letter = <<"C">> -> 3
      [] letter = <<"D">> -> 4
      [] OTHER -> 0

\* variant: the letter is looked up without upper-casing
AnswerCorrect_NoUpper(line) == AnswerTable(Strip(SplitColon1(line)))

AnswerCorrect(line) == AnswerTable(Upper(Strip(SplitColon1(line))))

ExplanationValue(line) == Strip(SplitColon1(line))

\* the locals of parse_pdf before the loop (correct is not yet bound)
ParseStart ==
    [current_q |-> NoneVal, data |-> <<>>, options |-> <<>>,
     correct |-> Unbound, explanation |-> <<>>]

Entry(st) ==
    [text |-> st.current_q, options |-> st.options,
     correct |-> st.correct, explanation |-> st.explanation]

\* the finalize test, in the loop and after it
Finalize(st) ==
    IF Truthy(st.current_q) /\ Len(st.options) = NumOptions
    THEN Append(st.data, Entry(st))
    ELSE st.data

\* variant: a continuation line is joined without the space
ParseLine_NoSpace(st, raw) ==
    LET line == Strip(raw)
    IN  IF line = <<>> THEN st
        ELSE IF IsNewQuestionLine(line)
        THEN [current_q |-> SliceFrom(line, 3), data |-> Finalize(st),
              options |-> <<>>, correct |-> 0, explanation |-> <<>>]
        ELSE IF IsOptionLine(line)
        THEN [st EXCEPT !.options = Append(@, OptionValue(line))]
        ELSE IF IsAnswerLine(line)
        THEN [st EXCEPT !.correct = AnswerCorrect(line)]
        ELSE IF IsExplanationLine(line)
        THEN [st EXCEPT !.explanation = ExplanationValue(line)]
        ELSE IF Truthy(st.current_q)
        THEN [st EXCEPT !.current_q = @ \o line]
        ELSE st

\* variant: a new question does not reset explanation
ParseLine_KeepExplanation(st, raw) ==
    LET line == Strip(raw)
    IN  IF line = <<>> THEN st
        ELSE IF IsNewQuestionLine(line)
        THEN [current_q |-> SliceFrom(line, 3), data |-> Finalize(st),
              options |-> <<>>, correct |-> 0, explanation |-> st.explanation]
        ELSE IF IsOptionLine(line)
        THEN [st EXCEPT !.options = Append(@, OptionValue(line))]
        ELSE IF IsAnswerLine(line)
        THEN [st EXCEPT !.correct = AnswerCorrect(line)]
        ELSE IF IsExplanationLine(line)
        THEN [st EXCEPT !.explanation = ExplanationValue(line)]
        ELSE IF Truthy(st.current_q)
        THEN [st EXCEPT !.current_q = @ \o <<" ">> \o line]
        ELSE st

\* one iteration of `for line in lines`
ParseLine(st, raw) ==
    LET line == Strip(raw)
    IN  IF line = <<>> THEN st
        ELSE IF IsNewQuestionLine(line)
        THEN [current_q |-> SliceFrom(line, 3), data |-> Finalize(st),
              options |-> <<>>, correct |-> 0, explanation |-> <<>>]
        ELSE IF IsOptionLine(line)
        THEN [st EXCEPT !.options = Append(@, OptionValue(line))]
        ELSE IF IsAnswerLine(line)
        THEN [st EXCEPT !.correct = AnswerCorrect(line)]
        ELSE IF IsExplanationLine(line)
        THEN [st EXCEPT !.explanation = ExplanationValue(line)]
        ELSE IF Truthy(st.current_q)
        THEN [st EXCEPT !.current_q = @ \o <<" ">> \o line]
        ELSE st

RECURSIVE ParseLoop(_, _)
ParseLoop(st, ls) ==
    IF ls = <<>> THEN st ELSE ParseLoop(ParseLine(st, Head(ls)), Tail(ls))

\* the locals when the loop and the final finalize are done
ParseLines(ls) ==
    LET st == ParseLoop(ParseStart, ls)
    IN  [st EXCEPT !.data = Finalize(st)]

\* data.append reads `correct`: UnboundLocalError if it was never assigned
ReadsUnbound(data) == \E i \in 1..Len(data) : data[i].correct = Unbound

\* Question(level, subject, qtext, opts[0..3], corr, expl)
MakeQuestion(level, subject, e) ==
    [level |-> level, subject |-> subject, text |-> e.text,
     option1 |-> e.options[1], option2 |-> e.options[2],
     option3 |-> e.options[3], option4 |-> e.options[4],
     correct |-> e.correct, explanation |-> e.explanation]

\* variant: the entries are handed to add_question last first
ParsedQuestions_Reversed(level, subject, data) ==
    [i \in 1..Len(data) |->
        MakeQuestion(level, subject, data[Len(data) + 1 - i])]

ParsedQuestions(level, subject, data) ==
    [i \in 1..Len(data) |-> MakeQuestion(level, subject, data[i])]

\* ------------------------------------------------------------------------
\* What SQLite binds: text as UTF-8, integers in 64 bits
\* ------------------------------------------------------------------------
\* the surrogate code points U+D800..U+DFFF: a str holding one has no UTF-8
\* encoding, and binding it raises UnicodeEncodeError
Surrogates ==
    {"\\ud800", "\\ud801", "\\ud802", "\\ud803", "\\ud804", "\\ud805",
     "\\ud806", "\\ud807", "\\ud808", "\\ud809", "\\ud80a", "\\ud80b",
     "\\ud80c", "\\ud80d", "\\ud80e", "\\ud80f", "\\ud810", "\\ud811",
     "\\ud812", "\\ud813", "\\ud814", "\\ud815", "\\ud816", "\\ud817",
     "\\ud818", "\\ud819", "\\ud81a", "\\ud81b", "\\ud81c", "\\ud81d",
     "\\ud81e", "\\ud81f", "\\ud820", "\\ud821", "\\ud822", "\\ud823",
     "\\ud824", "\\ud825", "\\ud826", "\\ud827", "\\ud828", "\\ud829",
     "\\ud82a", "\\ud82b", "\\ud82c", "\\ud82d", "\\ud82e", "\\ud82f",
     "\\ud830", "\\ud831", "\\ud832", "\\ud833", "\\ud834", "\\ud835",
     "\\ud836", "\\ud837", "\\ud838", "\\ud839", "\\ud83a", "\\ud83b",
     "\\ud83c", "\\ud83d", "\\ud83e", "\\ud83f", "\\ud840", "\\ud841",
     "\\ud842", "\\ud843", "\\ud844", "\\ud845", "\\ud846", "\\ud847",
     "\\ud848", "\\ud849", "\\ud84a", "\\ud84b", "\\ud84c", "\\ud84d",
     "\\ud84e", "\\ud84f", "\\ud850", "\\ud851", "\\ud852", "\\ud853",
     "\\ud854", "\\ud855", "\\ud856", "\\ud857", "\\ud858", "\\ud859",
     "\\ud85a", "\\ud85b", "\\ud85c", "\\ud85d", "\\ud85e", "\\ud85f",
     "\\ud860", "\\ud861", "\\ud862", "\\ud863", "\\ud864", "\\ud865",
     "\\ud866", "\\ud867", "\\ud868", "\\ud869", "\\ud86a", "\\ud86b",
     "\\ud86c", "\\ud86d", "\\ud86e", "\\ud86f", "\\ud870", "\\ud871",
     "\\ud872", "\\ud873", "\\ud874", "\\ud875", "\\ud876", "\\ud877",
     "\\ud878", "\\ud879", "\\ud87a", "\\ud87b", "\\ud87c", "\\ud87d",
     "\\ud87e", "\\ud87f", "\\ud880", "\\ud881", "\\ud882", "\\ud883",
     "\\ud884", "\\ud885", "\\ud886", "\\ud887", "\\ud888", "\\ud889",
     "\\ud88a", "\\ud88b", "\\ud88c", "\\ud88d", "\\ud88e", "\\ud88f",
     "\\ud890", "\\ud891", "\\ud892", "\\ud893", "\\ud894", "\\ud895",
     "\\ud896", "\\ud897", "\\ud898", "\\ud899", "\\ud89a", "\\ud89b",
     "\\ud89c", "\\ud89d", "\\ud89e", "\\ud89f", "\\ud8a0", "\\ud8a1",
     "\\ud8a2", "\\ud8a3", "\\ud8a4", "\\ud8a5", "\\ud8a6", "\\ud8a7",
     "\\ud8a8", "\\ud8a9", "\\ud8aa", "\\ud8ab", "\\ud8ac", "\\ud8ad",
     "\\ud8ae", "\\ud8af", "\\ud8b0", "\\ud8b1", "\\ud8b2", "\\ud8b3",
     "\\ud8b4", "\\ud8b5", "\\ud8b6", "\\ud8b7", "\\ud8b8", "\\ud8b9",
     "\\ud8ba", "\\ud8bb", "\\ud8bc", "\\ud8bd", "\\ud8be", "\\ud8bf",
     "\\ud8c0", "\\ud8c1", "\\ud8c2", "\\ud8c3", "\\ud8c4", "\\ud8c5",
     "\\ud8c6", "\\ud8c7", "\\ud8c8", "\\ud8c9", "\\ud8ca", "\\ud8cb",
     "\\ud8cc", "\\ud8cd", "\\ud8ce", "\\ud8cf", "\\ud8d0", "\\ud8d1",
     "\\ud8d2", "\\ud8d3", "\\ud8d4", "\\ud8d5", "\\ud8d6", "\\ud8d7",
     "\\ud8d8", "\\ud8d9", "\\ud8da", "\\ud8db", "\\ud8dc", "\\ud8dd",
     "\\ud8de", "\\ud8df", "\\ud8e0", "\\ud8e1", "\\ud8e2", "\\ud8e3",
     "\\ud8e4", "\\ud8e5", "\\ud8e6", "\\ud8e7", "\\ud8e8", "\\ud8e9",
     "\\ud8ea", "\\ud8eb", "\\ud8ec", "\\ud8ed", "\\ud8ee", "\\ud8ef",
     "\\ud8f0", "\\ud8f1", "\\ud8f2", "\\ud8f3", "\\ud8f4", "\\ud8f5",
     "\\ud8f6", "\\ud8f7", "\\ud8f8", "\\ud8f9", "\\ud8fa", "\\ud8fb",
     "\\ud8fc", "\\ud8fd", "\\ud8fe", "\\ud8ff", "\\ud900", "\\ud901",
     "\\ud902", "\\ud903", "\\ud904", "\\ud905", "\\ud906", "\\ud907",
     "\\ud908", "\\ud909", "\\ud90a", "\\ud90b", "\\ud90c", "\\ud90d",
     "\\ud90e", "\\ud90f", "\\ud910", "\\ud911", "\\ud912", "\\ud913",
     "\\ud914", "\\ud915", "\\ud916", "\\ud917", "\\ud918", "\\ud919",
     "\\ud91a", "\\ud91b", "\\ud91c", "\\ud91d", "\\ud91e", "\\ud91f",
     "\\ud920", "\\ud921", "\\ud922", "\\ud923", "\\ud924", "\\ud925",
     "\\ud926", "\\ud927", "\\ud928", "\\ud929", "\\ud92a", "\\ud92b",
     "\\ud92c", "\\ud92d", "\\ud92e", "\\ud92f", "\\ud930", "\\ud931",
     "\\ud932", "\\ud933", "\\ud934", "\\ud935", "\\ud936", "\\ud937",
     "\\ud938", "\\ud939", "\\ud93a", "\\ud93b", "\\ud93c", "\\ud93d",
     "\\ud93e", "\\ud93f", "\\ud940", "\\ud941", "\\ud942", "\\ud943",
     "\\ud944", "\\ud945", "\\ud946", "\\ud947", "\\ud948", "\\ud949",
     "\\ud94a", "\\ud94b", "\\ud94c", "\\ud94d", "\\ud94e", "\\ud94f",
     "\\ud950", "\\ud951", "\\ud952", "\\ud953", "\\ud954", "\\ud955",
     "\\ud956", "\\ud957", "\\ud958", "\\ud959", "\\ud95a", "\\ud95b",
     "\\ud95c", "\\ud95d", "\\ud95e", "\\ud95f", "\\ud960", "\\ud961",
     "\\ud962", "\\ud963", "\\ud964", "\\ud965", "\\ud966", "\\ud967",
     "\\ud968", "\\ud969", "\\ud96a", "\\ud96b", "\\ud96c", "\\ud96d",
     "\\ud96e", "\\ud96f", "\\ud970", "\\ud971", "\\ud972", "\\ud973",
     "\\ud974", "\\ud975", "\\ud976", "\\ud977", "\\ud978", "\\ud979",
     "\\ud97a", "\\ud97b", "\\ud97c", "\\ud97d", "\\ud97e", "\\ud97f",
     "\\ud980", "\\ud981", "\\ud982", "\\ud983", "\\ud984", "\\ud985",
     "\\ud986", "\\ud987", "\\ud988", "\\ud989", "\\ud98a", "\\ud98b",
     "\\ud98c", "\\ud98d", "\\ud98e", "\\ud98f", "\\ud990", "\\ud991",
     "\\ud992", "\\ud993", "\\ud994", "\\ud995", "\\ud996", "\\ud997",
     "\\ud998", "\\ud999", "\\ud99a", "\\ud99b", "\\ud99c", "\\ud99d",
     "\\ud99e", "\\ud99f", "\\ud9a0", "\\ud9a1", "\\ud9a2", "\\ud9a3",
     "\\ud9a4", "\\ud9a5", "\\ud9a6", "\\ud9a7", "\\ud9a8", "\\ud9a9",
     "\\ud9aa", "\\ud9ab", "\\ud9ac", "\\ud9ad", "\\ud9ae", "\\ud9af",
     "\\ud9b0", "\\ud9b1", "\\ud9b2", "\\ud9b3", "\\ud9b4", "\\ud9b5",
     "\\ud9b6", "\\ud9b7", "\\ud9b8", "\\ud9b9", "\\ud9ba", "\\ud9bb",
     "\\ud9bc", "\\ud9bd", "\\ud9be", "\\ud9bf", "\\ud9c0", "\\ud9c1",
     "\\ud9c2", "\\ud9c3", "\\ud9c4", "\\ud9c5", "\\ud9c6", "\\ud9c7",
     "\\ud9c8", "\\ud9c9", "\\ud9ca", "\\ud9cb", "\\ud9cc", "\\ud9cd",
     "\\ud9ce", "\\ud9cf", "\\ud9d0", "\\ud9d1", "\\ud9d2", "\\ud9d3",
     "\\ud9d4", "\\ud9d5", "\\ud9d6", "\\ud9d7", "\\ud9d8", "\\ud9d9",
     "\\ud9da", "\\ud9db", "\\ud9dc", "\\ud9dd", "\\ud9de", "\\ud9df",
     "\\ud9e0", "\\ud9e1", "\\ud9e2", "\\ud9e3", "\\ud9e4", "\\ud9e5",
     "\\ud9e6", "\\ud9e7", "\\ud9e8", "\\ud9e9", "\\ud9ea", "\\ud9eb",
     "\\ud9ec", "\\ud9ed", "\\ud9ee", "\\ud9ef", "\\ud9f0", "\\ud9f1",
     "\\ud9f2", "\\ud9f3", "\\ud9f4", "\\ud9f5", "\\ud9f6", "\\ud9f7",
     "\\ud9f8", "\\ud9f9", "\\ud9fa", "\\ud9fb", "\\ud9fc", "\\ud9fd",
     "\\ud9fe", "\\ud9ff", "\\uda00", "\\uda01", "\\uda02", "\\uda03",
     "\\uda04", "\\uda05", "\\uda06", "\\uda07", "\\uda08", "\\uda09",
     "\\uda0a", "\\uda0b", "\\uda0c", "\\uda0d", "\\uda0e", "\\uda0f",
     "\\uda10", "\\uda11", "\\uda12", "\\uda13", "\\uda14", "\\uda15",
     "\\uda16", "\\uda17", "\\uda18", "\\uda19", "\\uda1a", "\\uda1b",
     "\\uda1c", "\\uda1d", "\\uda1e", "\\uda1f", "\\uda20", "\\uda21",
     "\\uda22", "\\uda23", "\\uda24", "\\uda25", "\\uda26", "\\uda27",
     "\\uda28", "\\uda29", "\\uda2a", "\\uda2b", "\\uda2c", "\\uda2d",
     "\\uda2e", "\\uda2f", "\\uda30", "\\uda31", "\\uda32", "\\uda33",
     "\\uda34", "\\uda35", "\\uda36", "\\uda37", "\\uda38", "\\uda39",
     "\\uda3a", "\\uda3b", "\\uda3c", "\\uda3d", "\\uda3e", "\\uda3f",
     "\\uda40", "\\uda41", "\\uda42", "\\uda43", "\\uda44", "\\uda45",
     "\\uda46", "\\uda47", "\\uda48", "\\uda49", "\\uda4a", "\\uda4b",
     "\\uda4c", "\\uda4d", "\\uda4e", "\\uda4f", "\\uda50", "\\uda51",
     "\\uda52", "\\uda53", "\\uda54", "\\uda55", "\\uda56", "\\uda57",
     "\\uda58", "\\uda59", "\\uda5a", "\\uda5b", "\\uda5c", "\\uda5d",
     "\\uda5e", "\\uda5f", "\\uda60", "\\uda61", "\\uda62", "\\uda63",
     "\\uda64", "\\uda65", "\\uda66", "\\uda67", "\\uda68", "\\uda69",
     "\\uda6a", "\\uda6b", "\\uda6c", "\\uda6d", "\\uda6e", "\\uda6f",
     "\\uda70", "\\uda71", "\\uda72", "\\uda73", "\\uda74", "\\uda75",
     "\\uda76", "\\uda77", "\\uda78", "\\uda79", "\\uda7a", "\\uda7b",
     "\\uda7c", "\\uda7d", "\\uda7e", "\\uda7f", "\\uda80", "\\uda81",
     "\\uda82", "\\uda83", "\\uda84", "\\uda85", "\\uda86", "\\uda87",
     "\\uda88", "\\uda89", "\\uda8a", "\\uda8b", "\\uda8c", "\\uda8d",
     "\\uda8e", "\\uda8f", "\\uda90", "\\uda91", "\\uda92", "\\uda93",
     "\\uda94", "\\uda95", "\\uda96", "\\uda97", "\\uda98", "\\uda99",
     "\\uda9a", "\\uda9b", "\\uda9c", "\\uda9d", "\\uda9e", "\\uda9f",
     "\\udaa0", "\\udaa1", "\\udaa2", "\\udaa3", "\\udaa4", "\\udaa5",
     "\\udaa6", "\\udaa7", "\\udaa8", "\\udaa9", "\\udaaa", "\\udaab",
     "\\udaac", "\\udaad", "\\udaae", "\\udaaf", "\\udab0", "\\udab1",
     "\\udab2", "\\udab3", "\\udab4", "\\udab5", "\\udab6", "\\udab7",
     "\\udab8", "\\udab9", "\\udaba", "\\udabb", "\\udabc", "\\udabd",
     "\\udabe", "\\udabf", "\\udac0", "\\udac1", "\\udac2", "\\udac3",
     "\\udac4", "\\udac5", "\\udac6", "\\udac7", "\\udac8", "\\udac9",
     "\\udaca", "\\udacb", "\\udacc", "\\udacd", "\\udace", "\\udacf",
     "\\udad0", "\\udad1", "\\udad2", "\\udad3", "\\udad4", "\\udad5",
     "\\udad6", "\\udad7", "\\udad8", "\\udad9", "\\udada", "\\udadb",
     "\\udadc", "\\udadd", "\\udade", "\\udadf", "\\udae0", "\\udae1",
     "\\udae2", "\\udae3", "\\udae4", "\\udae5", "\\udae6", "\\udae7",
     "\\udae8", "\\udae9", "\\udaea", "\\udaeb", "\\udaec", "\\udaed",
     "\\udaee", "\\udaef", "\\udaf0", "\\udaf1", "\\udaf2", "\\udaf3",
     "\\udaf4", "\\udaf5", "\\udaf6", "\\udaf7", "\\udaf8", "\\udaf9",
     "\\udafa", "\\udafb", "\\udafc", "\\udafd", "\\udafe", "\\udaff",
     "\\udb00", "\\udb01", "\\udb02", "\\udb03", "\\udb04", "\\udb05",
     "\\udb06", "\\udb07", "\\udb08", "\\udb09", "\\udb0a", "\\udb0b",
     "\\udb0c", "\\udb0d", "\\udb0e", "\\udb0f", "\\udb10", "\\udb11",
     "\\udb12", "\\udb13", "\\udb14", "\\udb15", "\\udb16", "\\udb17",
     "\\udb18", "\\udb19", "\\udb1a", "\\udb1b", "\\udb1c", "\\udb1d",
     "\\udb1e", "\\udb1f", "\\udb20", "\\udb21", "\\udb22", "\\udb23",
     "\\udb24", "\\udb25", "\\udb26", "\\udb27", "\\udb28", "\\udb29",
     "\\udb2a", "\\udb2b", "\\udb2c", "\\udb2d", "\\udb2e", "\\udb2f",
     "\\udb30", "\\udb31", "\\udb32", "\\udb33", "\\udb34", "\\udb35",
     "\\udb36", "\\udb37", "\\udb38", "\\udb39", "\\udb3a", "\\udb3b",
     "\\udb3c", "\\udb3d", "\\udb3e", "\\udb3f", "\\udb40", "\\udb41",
     "\\udb42", "\\udb43", "\\udb44", "\\udb45", "\\udb46", "\\udb47",
     "\\udb48", "\\udb49", "\\udb4a", "\\udb4b", "\\udb4c", "\\udb4d",
     "\\udb4e", "\\udb4f", "\\udb50", "\\udb51", "\\udb52", "\\udb53",
     "\\udb54", "\\udb55", "\\udb56", "\\udb57", "\\udb58", "\\udb59",
     "\\udb5a", "\\udb5b", "\\udb5c", "\\udb5d", "\\udb5e", "\\udb5f",
     "\\udb60", "\\udb61", "\\udb62", "\\udb63", "\\udb64", "\\udb65",
     "\\udb66", "\\udb67", "\\udb68", "\\udb69", "\\udb6a", "\\udb6b",
     "\\udb6c", "\\udb6d", "\\udb6e", "\\udb6f", "\\udb70", "\\udb71",
     "\\udb72", "\\udb73", "\\udb74", "\\udb75", "\\udb76", "\\udb77",
     "\\udb78", "\\udb79", "\\udb7a", "\\udb7b", "\\udb7c", "\\udb7d",
     "\\udb7e", "\\udb7f", "\\udb80", "\\udb81", "\\udb82", "\\udb83",
     "\\udb84", "\\udb85", "\\udb86", "\\udb87", "\\udb88", "\\udb89",
     "\\udb8a", "\\udb8b", "\\udb8c", "\\udb8d", "\\udb8e", "\\udb8f",
     "\\udb90", "\\udb91", "\\udb92", "\\udb93", "\\udb94", "\\udb95",
     "\\udb96", "\\udb97", "\\udb98", "\\udb99", "\\udb9a", "\\udb9b",
     "\\udb9c", "\\udb9d", "\\udb9e", "\\udb9f", "\\udba0", "\\udba1",
     "\\udba2", "\\udba3", "\\udba4", "\\udba5", "\\udba6", "\\udba7",
     "\\udba8", "\\udba9", "\\udbaa", "\\udbab", "\\udbac", "\\udbad",
     "\\udbae", "\\udbaf", "\\udbb0", "\\udbb1", "\\udbb2", "\\udbb3",
     "\\udbb4", "\\udbb5", "\\udbb6", "\\udbb7", "\\udbb8", "\\udbb9",
     "\\udbba", "\\udbbb", "\\udbbc", "\\udbbd", "\\udbbe", "\\udbbf",
     "\\udbc0", "\\udbc1", "\\udbc2", "\\udbc3", "\\udbc4", "\\udbc5",
     "\\udbc6", "\\udbc7", "\\udbc8", "\\udbc9", "\\udbca", "\\udbcb",
     "\\udbcc", "\\udbcd", "\\udbce", "\\udbcf", "\\udbd0", "\\udbd1",
     "\\udbd2", "\\udbd3", "\\udbd4", "\\udbd5", "\\udbd6", "\\udbd7",
     "\\udbd8", "\\udbd9", "\\udbda", "\\udbdb", "\\udbdc", "\\udbdd",
     "\\udbde", "\\udbdf", "\\udbe0", "\\udbe1", "\\udbe2", "\\udbe3",
     "\\udbe4", "\\udbe5", "\\udbe6", "\\udbe7", "\\udbe8", "\\udbe9",
     "\\udbea", "\\udbeb", "\\udbec", "\\udbed", "\\udbee", "\\udbef",
     "\\udbf0", "\\udbf1", "\\udbf2", "\\udbf3", "\\udbf4", "\\udbf5",
     "\\udbf6", "\\udbf7", "\\udbf8", "\\udbf9", "\\udbfa", "\\udbfb",
     "\\udbfc", "\\udbfd", "\\udbfe", "\\udbff", "\\udc00", "\\udc01",
     "\\udc02", "\\udc03", "\\udc04", "\\udc05", "\\udc06", "\\udc07",
     "\\udc08", "\\udc09", "\\udc0a", "\\udc0b", "\\udc0c", "\\udc0d",
     "\\udc0e", "\\udc0f", "\\udc10", "\\udc11", "\\udc12", "\\udc13",
     "\\udc14", "\\udc15", "\\udc16", "\\udc17", "\\udc18", "\\udc19",
     "\\udc1a", "\\udc1b", "\\udc1c", "\\udc1d", "\\udc1e", "\\udc1f",
     "\\udc20", "\\udc21", "\\udc22", "\\udc23", "\\udc24", "\\udc25",
     "\\udc26", "\\udc27", "\\udc28", "\\udc29", "\\udc2a", "\\udc2b",
     "\\udc2c", "\\udc2d", "\\udc2e", "\\udc2f", "\\udc30", "\\udc31",
     "\\udc32", "\\udc33", "\\udc34", "\\udc35", "\\udc36", "\\udc37",
     "\\udc38", "\\udc39", "\\udc3a", "\\udc3b", "\\udc3c", "\\udc3d",
     "\\udc3e", "\\udc3f", "\\udc40", "\\udc41", "\\udc42", "\\udc43",
     "\\udc44", "\\udc45", "\\udc46", "\\udc47", "\\udc48", "\\udc49",
     "\\udc4a", "\\udc4b", "\\udc4c", "\\udc4d", "\\udc4e", "\\udc4f",
     "\\udc50", "\\udc51", "\\udc52", "\\udc53", "\\udc54", "\\udc55",
     "\\udc56", "\\udc57", "\\udc58", "\\udc59", "\\udc5a", "\\udc5b",
     "\\udc5c", "\\udc5d", "\\udc5e", "\\udc5f", "\\udc60", "\\udc61",
     "\\udc62", "\\udc63", "\\udc64", "\\udc65", "\\udc66", "\\udc67",
     "\\udc68", "\\udc69", "\\udc6a", "\\udc6b", "\\udc6c", "\\udc6d",
     "\\udc6e", "\\udc6f", "\\udc70", "\\udc71", "\\udc72", "\\udc73",
     "\\udc74", "\\udc75", "\\udc76", "\\udc77", "\\udc78", "\\udc79",
     "\\udc7a", "\\udc7b", "\\udc7c", "\\udc7d", "\\udc7e", "\\udc7f",
     "\\udc80", "\\udc81", "\\udc82", "\\udc83", "\\udc84", "\\udc85",
     "\\udc86", "\\udc87", "\\udc88", "\\udc89", "\\udc8a", "\\udc8b",
     "\\udc8c", "\\udc8d", "\\udc8e", "\\udc8f", "\\udc90", "\\udc91",
     "\\udc92", "\\udc93", "\\udc94", "\\udc95", "\\udc96", "\\udc97",
     "\\udc98", "\\udc99", "\\udc9a", "\\udc9b", "\\udc9c", "\\udc9d",
     "\\udc9e", "\\udc9f", "\\udca0", "\\udca1", "\\udca2", "\\udca3",
     "\\udca4", "\\udca5", "\\udca6", "\\udca7", "\\udca8", "\\udca9",
     "\\udcaa", "\\udcab", "\\udcac", "\\udcad", "\\udcae", "\\udcaf",
     "\\udcb0", "\\udcb1", "\\udcb2", "\\udcb3", "\\udcb4", "\\udcb5",
     "\\udcb6", "\\udcb7", "\\udcb8", "\\udcb9", "\\udcba", "\\udcbb",
     "\\udcbc", "\\udcbd", "\\udcbe", "\\udcbf", "\\udcc0", "\\udcc1",
     "\\udcc2", "\\udcc3", "\\udcc4", "\\udcc5", "\\udcc6", "\\udcc7",
     "\\udcc8", "\\udcc9", "\\udcca", "\\udccb", "\\udccc", "\\udccd",
     "\\udcce", "\\udccf", "\\udcd0", "\\udcd1", "\\udcd2", "\\udcd3",
     "\\udcd4", "\\udcd5", "\\udcd6", "\\udcd7", "\\udcd8", "\\udcd9",
     "\\udcda", "\\udcdb", "\\udcdc", "\\udcdd", "\\udcde", "\\udcdf",
     "\\udce0", "\\udce1", "\\udce2", "\\udce3", "\\udce4", "\\udce5",
     "\\udce6", "\\udce7", "\\udce8", "\\udce9", "\\udcea", "\\udceb",
     "\\udcec", "\\udced", "\\udcee", "\\udcef", "\\udcf0", "\\udcf1",
     "\\udcf2", "\\udcf3", "\\udcf4", "\\udcf5", "\\udcf6", "\\udcf7",
     "\\udcf8", "\\udcf9", "\\udcfa", "\\udcfb", "\\udcfc", "\\udcfd",
     "\\udcfe", "\\udcff", "\\udd00", "\\udd01", "\\udd02", "\\udd03",
     "\\udd04", "\\udd05", "\\udd06", "\\udd07", "\\udd08", "\\udd09",
     "\\udd0a", "\\udd0b", "\\udd0c", "\\udd0d", "\\udd0e", "\\udd0f",
     "\\udd10", "\\udd11", "\\udd12", "\\udd13", "\\udd14", "\\udd15",
     "\\udd16", "\\udd17", "\\udd18", "\\udd19", "\\udd1a", "\\udd1b",
     "\\udd1c", "\\udd1d", "\\udd1e", "\\udd1f", "\\udd20", "\\udd21",
     "\\udd22", "\\udd23", "\\udd24", "\\udd25", "\\udd26", "\\udd27",
     "\\udd28", "\\udd29", "\\udd2a", "\\udd2b", "\\udd2c", "\\udd2d",
     "\\udd2e", "\\udd2f", "\\udd30", "\\udd31", "\\udd32", "\\udd33",
     "\\udd34", "\\udd35", "\\udd36", "\\udd37", "\\udd38", "\\udd39",
     "\\udd3a", "\\udd3b", "\\udd3c", "\\udd3d", "\\udd3e", "\\udd3f",
     "\\udd40", "\\udd41", "\\udd42", "\\udd43", "\\udd44", "\\udd45",
     "\\udd46", "\\udd47", "\\udd48", "\\udd49", "\\udd4a", "\\udd4b",
     "\\udd4c", "\\udd4d", "\\udd4e", "\\udd4f", "\\udd50", "\\udd51",
     "\\udd52", "\\udd53", "\\udd54", "\\udd55", "\\udd56", "\\udd57",
     "\\udd58", "\\udd59", "\\udd5a", "\\udd5b", "\\udd5c", "\\udd5d",
     "\\udd5e", "\\udd5f", "\\udd60", "\\udd61", "\\udd62", "\\udd63",
     "\\udd64", "\\udd65", "\\udd66", "\\udd67", "\\udd68", "\\udd69",
     "\\udd6a", "\\udd6b", "\\udd6c", "\\udd6d", "\\udd6e", "\\udd6f",
     "\\udd70", "\\udd71", "\\udd72", "\\udd73", "\\udd74", "\\udd75",
     "\\udd76", "\\udd77", "\\udd78", "\\udd79", "\\udd7a", "\\udd7b",
     "\\udd7c", "\\udd7d", "\\udd7e", "\\udd7f", "\\udd80", "\\udd81",
     "\\udd82", "\\udd83", "\\udd84", "\\udd85", "\\udd86", "\\udd87",
     "\\udd88", "\\udd89", "\\udd8a", "\\udd8b", "\\udd8c", "\\udd8d",
     "\\udd8e", "\\udd8f", "\\udd90", "\\udd91", "\\udd92", "\\udd93",
     "\\udd94", "\\udd95", "\\udd96", "\\udd97", "\\udd98", "\\udd99",
     "\\udd9a", "\\udd9b", "\\udd9c", "\\udd9d", "\\udd9e", "\\udd9f",
     "\\udda0", "\\udda1", "\\udda2", "\\udda3", "\\udda4", "\\udda5",
     "\\udda6", "\\udda7", "\\udda8", "\\udda9", "\\uddaa", "\\uddab",
     "\\uddac", "\\uddad", "\\uddae", "\\uddaf", "\\uddb0", "\\uddb1",
     "\\uddb2", "\\uddb3", "\\uddb4", "\\uddb5", "\\uddb6", "\\uddb7",
     "\\uddb8", "\\uddb9", "\\uddba", "\\uddbb", "\\uddbc", "\\uddbd",
     "\\uddbe", "\\uddbf", "\\uddc0", "\\uddc1", "\\uddc2", "\\uddc3",
     "\\uddc4", "\\uddc5", "\\uddc6", "\\uddc7", "\\uddc8", "\\uddc9",
     "\\uddca", "\\uddcb", "\\uddcc", "\\uddcd", "\\uddce", "\\uddcf",
     "\\uddd0", "\\uddd1", "\\uddd2", "\\uddd3", "\\uddd4", "\\uddd5",
     "\\uddd6", "\\uddd7", "\\uddd8", "\\uddd9", "\\uddda", "\\udddb",
     "\\udddc", "\\udddd", "\\uddde", "\\udddf", "\\udde0", "\\udde1",
     "\\udde2", "\\udde3", "\\udde4", "\\udde5", "\\udde6", "\\udde7",
     "\\udde8", "\\udde9", "\\uddea", "\\uddeb", "\\uddec", "\\udded",
     "\\uddee", "\\uddef", "\\uddf0", "\\uddf1", "\\uddf2", "\\uddf3",
     "\\uddf4", "\\uddf5", "\\uddf6", "\\uddf7", "\\uddf8", "\\uddf9",
     "\\uddfa", "\\uddfb", "\\uddfc", "\\uddfd", "\\uddfe", "\\uddff",
     "\\ude00", "\\ude01", "\\ude02", "\\ude03", "\\ude04", "\\ude05",
     "\\ude06", "\\ude07", "\\ude08", "\\ude09", "\\ude0a", "\\ude0b",
     "\\ude0c", "\\ude0d", "\\ude0e", "\\ude0f", "\\ude10", "\\ude11",
     "\\ude12", "\\ude13", "\\ude14", "\\ude15", "\\ude16", "\\ude17",
     "\\ude18", "\\ude19", "\\ude1a", "\\ude1b", "\\ude1c", "\\ude1d",
     "\\ude1e", "\\ude1f", "\\ude20", "\\ude21", "\\ude22", "\\ude23",
     "\\ude24", "\\ude25", "\\ude26", "\\ude27", "\\ude28", "\\ude29",
     "\\ude2a", "\\ude2b", "\\ude2c", "\\ude2d", "\\ude2e", "\\ude2f",
     "\\ude30", "\\ude31", "\\ude32", "\\ude33", "\\ude34", "\\ude35",
     "\\ude36", "\\ude37", "\\ude38", "\\ude39", "\\ude3a", "\\ude3b",
     "\\ude3c", "\\ude3d", "\\ude3e", "\\ude3f", "\\ude40", "\\ude41",
     "\\ude42", "\\ude43", "\\ude44", "\\ude45", "\\ude46", "\\ude47",
     "\\ude48", "\\ude49", "\\ude4a", "\\ude4b", "\\ude4c", "\\ude4d",
     "\\ude4e", "\\ude4f", "\\ude50", "\\ude51", "\\ude52", "\\ude53",
     "\\ude54", "\\ude55", "\\ude56", "\\ude57", "\\ude58", "\\ude59",
     "\\ude5a", "\\ude5b", "\\ude5c", "\\ude5d", "\\ude5e", "\\ude5f",
     "\\ude60", "\\ude61", "\\ude62", "\\ude63", "\\ude64", "\\ude65",
     "\\ude66", "\\ude67", "\\ude68", "\\ude69", "\\ude6a", "\\ude6b",
     "\\ude6c", "\\ude6d", "\\ude6e", "\\ude6f", "\\ude70", "\\ude71",
     "\\ude72", "\\ude73", "\\ude74", "\\ude75", "\\ude76", "\\ude77",
     "\\ude78", "\\ude79", "\\ude7a", "\\ude7b", "\\ude7c", "\\ude7d",
     "\\ude7e", "\\ude7f", "\\ude80", "\\ude81", "\\ude82", "\\ude83",
     "\\ude84", "\\ude85", "\\ude86", "\\ude87", "\\ude88", "\\ude89",
     "\\ude8a", "\\ude8b", "\\ude8c", "\\ude8d", "\\ude8e", "\\ude8f",
     "\\ude90", "\\ude91", "\\ude92", "\\ude93", "\\ude94", "\\ude95",
     "\\ude96", "\\ude97", "\\ude98", "\\ude99", "\\ude9a", "\\ude9b",
     "\\ude9c", "\\ude9d", "\\ude9e", "\\ude9f", "\\udea0", "\\udea1",
     "\\udea2", "\\udea3", "\\udea4", "\\udea5", "\\udea6", "\\udea7",
     "\\udea8", "\\udea9", "\\udeaa", "\\udeab", "\\udeac", "\\udead",
     "\\udeae", "\\udeaf", "\\udeb0", "\\udeb1", "\\udeb2", "\\udeb3",
     "\\udeb4", "\\udeb5", "\\udeb6", "\\udeb7", "\\udeb8", "\\udeb9",
     "\\udeba", "\\udebb", "\\udebc", "\\udebd", "\\udebe", "\\udebf",
     "\\udec0", "\\udec1", "\\udec2", "\\udec3", "\\udec4", "\\udec5",
     "\\udec6", "\\udec7", "\\udec8", "\\udec9", "\\udeca", "\\udecb",
     "\\udecc", "\\udecd", "\\udece", "\\udecf", "\\uded0", "\\uded1",
     "\\uded2", "\\uded3", "\\uded4", "\\uded5", "\\uded6", "\\uded7",
     "\\uded8", "\\uded9", "\\udeda", "\\udedb", "\\udedc", "\\udedd",
     "\\udede", "\\udedf", "\\udee0", "\\udee1", "\\udee2", "\\udee3",
     "\\udee4", "\\udee5", "\\udee6", "\\udee7", "\\udee8", "\\udee9",
     "\\udeea", "\\udeeb", "\\udeec", "\\udeed", "\\udeee", "\\udeef",
     "\\udef0", "\\udef1", "\\udef2", "\\udef3", "\\udef4", "\\udef5",
     "\\udef6", "\\udef7", "\\udef8", "\\udef9", "\\udefa", "\\udefb",
     "\\udefc", "\\udefd", "\\udefe", "\\udeff", "\\udf00", "\\udf01",
     "\\udf02", "\\udf03", "\\udf04", "\\udf05", "\\udf06", "\\udf07",
     "\\udf08", "\\udf09", "\\udf0a", "\\udf0b", "\\udf0c", "\\udf0d",
     "\\udf0e", "\\udf0f", "\\udf10", "\\udf11", "\\udf12", "\\udf13",
     "\\udf14", "\\udf15", "\\udf16", "\\udf17", "\\udf18", "\\udf19",
     "\\udf1a", "\\udf1b", "\\udf1c", "\\udf1d", "\\udf1e", "\\udf1f",
     "\\udf20", "\\udf21", "\\udf22", "\\udf23", "\\udf24", "\\udf25",
     "\\udf26", "\\udf27", "\\udf28", "\\udf29", "\\udf2a", "\\udf2b",
     "\\udf2c", "\\udf2d", "\\udf2e", "\\udf2f", "\\udf30", "\\udf31",
     "\\udf32", "\\udf33", "\\udf34", "\\udf35", "\\udf36", "\\udf37",
     "\\udf38", "\\udf39", "\\udf3a", "\\udf3b", "\\udf3c", "\\udf3d",
     "\\udf3e", "\\udf3f", "\\udf40", "\\udf41", "\\udf42", "\\udf43",
     "\\udf44", "\\udf45", "\\udf46", "\\udf47", "\\udf48", "\\udf49",
     "\\udf4a", "\\udf4b", "\\udf4c", "\\udf4d", "\\udf4e", "\\udf4f",
     "\\udf50", "\\udf51", "\\udf52", "\\udf53", "\\udf54", "\\udf55",
     "\\udf56", "\\udf57", "\\udf58", "\\udf59", "\\udf5a", "\\udf5b",
     "\\udf5c", "\\udf5d", "\\udf5e", "\\udf5f", "\\udf60", "\\udf61",
     "\\udf62", "\\udf63", "\\udf64", "\\udf65", "\\udf66", "\\udf67",
     "\\udf68", "\\udf69", "\\udf6a", "\\udf6b", "\\udf6c", "\\udf6d",
     "\\udf6e", "\\udf6f", "\\udf70", "\\udf71", "\\udf72", "\\udf73",
     "\\udf74", "\\udf75", "\\udf76", "\\udf77", "\\udf78", "\\udf79",
     "\\udf7a", "\\udf7b", "\\udf7c", "\\udf7d", "\\udf7e", "\\udf7f",
     "\\udf80", "\\udf81", "\\udf82", "\\udf83", "\\udf84", "\\udf85",
     "\\udf86", "\\udf87", "\\udf88", "\\udf89", "\\udf8a", "\\udf8b",
     "\\udf8c", "\\udf8d", "\\udf8e", "\\udf8f", "\\udf90", "\\udf91",
     "\\udf92", "\\udf93", "\\udf94", "\\udf95", "\\udf96", "\\udf97",
     "\\udf98", "\\udf99", "\\udf9a", "\\udf9b", "\\udf9c", "\\udf9d",
     "\\udf9e", "\\udf9f", "\\udfa0", "\\udfa1", "\\udfa2", "\\udfa3",
     "\\udfa4", "\\udfa5", "\\udfa6", "\\udfa7", "\\udfa8", "\\udfa9",
     "\\udfaa", "\\udfab", "\\udfac", "\\udfad", "\\udfae", "\\udfaf",
     "\\udfb0", "\\udfb1", "\\udfb2", "\\udfb3", "\\udfb4", "\\udfb5",
     "\\udfb6", "\\udfb7", "\\udfb8", "\\udfb9", "\\udfba", "\\udfbb",
     "\\udfbc", "\\udfbd", "\\udfbe", "\\udfbf", "\\udfc0", "\\udfc1",
     "\\udfc2", "\\udfc3", "\\udfc4", "\\udfc5", "\\udfc6", "\\udfc7",
     "\\udfc8", "\\udfc9", "\\udfca", "\\udfcb", "\\udfcc", "\\udfcd",
     "\\udfce", "\\udfcf", "\\udfd0", "\\udfd1", "\\udfd2", "\\udfd3",
     "\\udfd4", "\\udfd5", "\\udfd6", "\\udfd7", "\\udfd8", "\\udfd9",
     "\\udfda", "\\udfdb", "\\udfdc", "\\udfdd", "\\udfde", "\\udfdf",
     "\\udfe0", "\\udfe1", "\\udfe2", "\\udfe3", "\\udfe4", "\\udfe5",
     "\\udfe6", "\\udfe7", "\\udfe8", "\\udfe9", "\\udfea", "\\udfeb",
     "\\udfec", "\\udfed", "\\udfee", "\\udfef", "\\udff0", "\\udff1",
     "\\udff2", "\\udff3", "\\udff4", "\\udff5", "\\udff6", "\\udff7",
     "\\udff8", "\\udff9", "\\udffa", "\\udffb", "\\udffc", "\\udffd",
     "\\udffe", "\\udfff"}

Encodable(s) == \A i \in 1..Len(s) : s[i] \notin Surrogates

\* ------------------------------------------------------------------------
\* Python int() and str() of the values the program converts
\* ------------------------------------------------------------------------
\* the value of a decimal digit of any script
DigitValue(c) ==
    LET r == CHOOSE r \in 1..Len(DecimalRuns) :
                 \E d \in 1..10 : DecimalRuns[r][d] = c
    IN  (CHOOSE d \in 1..10 : DecimalRuns[r][d] = c) - 1

\* the value of a run of digits; the underscores between them do not count
RECURSIVE DigitsValue(_, _)
DigitsValue(s, acc) ==
    IF s = <<>> THEN acc
    ELSE IF Head(s) = "_" THEN DigitsValue(Tail(s), acc)
    ELSE DigitsValue(Tail(s), 10 * acc + DigitValue(Head(s)))

\* the most digits int() converts (sys.get_int_max_str_digits(), which the
\* program leaves at its default); the underscores are not counted
int_max_str_digits == 4300

\* the bodies int() accepts in base 10: decimal digits of any script, with
\* single underscores allowed between two digits, int_max_str_digits digits
\* at most
AllDigits(s) ==
    /\ s # <<>>
    /\ Cardinality({i \in 1..Len(s) : s[i] \in DecimalChars}) <= int_max_str_digits
    /\ \A i \in 1..Len(s) :
           \/ s[i] \in DecimalChars
           \/ /\ s[i] = "_"
              /\ 1 < i /\ i < Len(s)
              /\ s[i - 1] \in DecimalChars
              /\ s[i + 1] \in DecimalChars

\* an accepted body from its first non-zero digit on: the zeros and
\* underscores in front of it add nothing to the value
Significant(s) ==
    LET nz == {i \in 1..Len(s) : s[i] # "_" /\ DigitValue(s[i]) # 0}
    IN  IF nz = {} THEN <<>>
        ELSE SubSeq(s, CHOOSE i \in nz : \A j \in nz : i <= j, Len(s))

\* A Python int is held as itself when its magnitude is below 2^31 - 1.
\* TooBig stands for every int above 2^63 - 1 and TooSmall for every int
\* below -2^63, the ints SQLite cannot bind; the ints between have no
\* value in the model, and evaluating one stops with an overflow.
TooBig == 2147483647

TooSmall == 0 - 2147483647

\* the magnitude m, which must lie below TooBig
Held(m) == (m + 1) - 1

\* the digits of 2^63 - 1 and of 2^63
Int64Max == <<9, 2, 2, 3, 3, 7, 2, 0, 3, 6, 8, 5, 4, 7, 7, 5, 8, 0, 7>>

Int64MinMagnitude == [Int64Max EXCEPT ![19] = 8]

\* the digit values of an accepted body, underscores dropped
RECURSIVE DigitValues(_)
DigitValues(s) ==
    IF s = <<>> THEN <<>>
    ELSE IF Head(s) = "_" THEN DigitValues(Tail(s))
    ELSE <<DigitValue(Head(s))>> \o DigitValues(Tail(s))

\* the number written sig (significant digits, underscores between them)
\* exceeds the number with digits limit
MoreThan(sig, limit) ==
    LET n == Cardinality({i \in 1..Len(sig) : sig[i] # "_"})
    IN  \/ n > Len(limit)
        \/ /\ n = Len(limit)
           /\ LET a == DigitValues(sig)
              IN  \E i \in 1..n :
                      /\ a[i] > limit[i]
                      /\ \A j \in 1..(i - 1) : a[j] = limit[j]

\* the int with significant digits sig and the given sign
IntValue(sig, negative) ==
    IF negative
    THEN IF MoreThan(sig, Int64MinMagnitude) THEN TooSmall
         ELSE 0 - Held(DigitsValue(sig, 0))
    ELSE IF MoreThan(sig, Int64Max) THEN TooBig
         ELSE Held(DigitsValue(sig, 0))

\* the int fits the 64 bits of an SQLite integer
FitsInt64(n) == n # TooBig /\ n # TooSmall

RECURSIVE IntLStrip(_)
IntLStrip(s) ==
    IF s # <<>> /\ Head(s) \in IntWhitespace THEN IntLStrip(Tail(s)) ELSE s

RECURSIVE IntRStrip(_)
IntRStrip(s) ==
    IF s # <<>> /\ s[Len(s)] \in IntWhitespace
    THEN IntRStrip(SubSeq(s, 1, Len(s) - 1))
    ELSE s

\* int(s) of a string: surrounding whitespace and one sign are accepted;
\* ok = FALSE stands for ValueError
IntOfStr(s) ==
    LET t == IntRStrip(IntLStrip(s))
        signed == t # <<>> /\ Head(t) \in {"+", "-"}
        body == IF signed THEN Tail(t) ELSE t
    IN  IF AllDigits(body)
        THEN [ok |-> TRUE,
              val |-> IntValue(Significant(body), signed /\ Head(t) = "-")]
        ELSE [ok |-> FALSE, val |-> 0]

RECURSIVE NatStr(_)
NatStr(n) ==
    IF n < 10 THEN <<DigitSeq[n + 1]>>
    ELSE Append(NatStr(n \div 10), DigitSeq[(n % 10) + 1])

IntStr(n) == IF n < 0 THEN <<"-">> \o NatStr(0 - n) ELSE NatStr(n)

\* a spreadsheet cell as pandas hands it over: a string, an integer or NaN
StrCell(s) == [k |-> "str", s |-> s, i |-> 0]
IntCell(n) == [k |-> "int", s |-> <<>>, i |-> n]
NanCell == [k |-> "nan", s |-> <<>>, i |-> 0]

\* str(cell)
PyStr(cell) ==
    CASE cell.k = "str" -> cell.s
      [] cell.k = "int" -> IntStr(cell.i)
      [] OTHER -> <<"n", "a", "n">>

\* int(cell); ok = FALSE stands for ValueError
PyInt(cell) ==
    CASE cell.k = "str" -> IntOfStr(cell.s)
      [] cell.k = "int" -> [ok |-> TRUE, val |-> cell.i]
      [] OTHER -> [ok |-> FALSE, val |-> 0]

\* ------------------------------------------------------------------------
\* The store: table `questions`
\* ------------------------------------------------------------------------
\* variant: option3 and option4 bound to each other's column
InsertRow_SwappedOptions(store, q) ==
    [id |-> Len(store) + 1, level |-> q.level, subject |-> q.subject,
     text |-> q.text, option1 |-> q.option1, option2 |-> q.option2,
     option3 |-> q.option4, option4 |-> q.option3, correct |-> q.correct,
     explanation |-> q.explanation]

\* the row INSERT writes for q; AUTOINCREMENT numbers rows 1, 2, ...
InsertRow(store, q) ==
    [id |-> Len(store) + 1, level |-> q.level, subject |-> q.subject,
     text |-> q.text, option1 |-> q.option1, option2 |-> q.option2,
     option3 |-> q.option3, option4 |-> q.option4, correct |-> q.correct,
     explanation |-> q.explanation]

\* the exception binding the nine parameters of the INSERT raises: they
\* are bound in the order of the tuple, and the first that cannot be bound
\* decides
BindError(q) ==
    IF \E f \in {"level", "subject", "text", "option1", "option2",
                 "option3", "option4"} : ~Encodable(q[f])
    THEN "UnicodeEncodeError"
    ELSE IF ~FitsInt64(q.correct) THEN "OverflowError"
    ELSE IF ~Encodable(q.explanation) THEN "UnicodeEncodeError"
    ELSE "none"

\* the exception cur.execute(INSERT ...) raises: the statement is prepared
\* against the schema before its parameters are bound
InsertError(hasTable, q) ==
    IF ~hasTable THEN "OperationalError" ELSE BindError(q)

\* add_question: the store it leaves and the exception it raises; a failed
\* INSERT is not committed and stores nothing
add_question(hasTable, store, q) ==
    IF InsertError(hasTable, q) # "none"
    THEN [db |-> store, raised |-> InsertError(hasTable, q)]
    ELSE [db |-> Append(store, InsertRow(store, q)), raised |-> "none"]

\* add_question for each element of qs, in order; each call commits its
\* row, and the first that raises ends the caller
RECURSIVE AddAll(_, _, _)
AddAll(hasTable, store, qs) ==
    IF qs = <<>> THEN [db |-> store, raised |-> "none"]
    ELSE LET r == add_question(hasTable, store, Head(qs))
         IN  IF r.raised # "none" THEN r
             ELSE AddAll(hasTable, r.db, Tail(qs))

\* the questions of qs (given in order) that were inserted
Added(before, after, qs) ==
    IF Len(after) > Len(before)
    THEN SubSeq(qs, 1, Len(after) - Len(before))
    ELSE <<>>

\* SELECT level, subject, ..., explanation: the row without its id
SelectColumns(r) ==
    [level |-> r.level, subject |-> r.subject, text |-> r.text,
     option1 |-> r.option1, option2 |-> r.option2, option3 |-> r.option3,
     option4 |-> r.option4, correct |-> r.correct,
     explanation |-> r.explanation]

\* ------------------------------------------------------------------------
\* import_excel
\* ------------------------------------------------------------------------
required_cols ==
    {"level", "subject", "text", "option1", "option2", "option3",
     "option4", "correct", "explanation"}

MissingColumn(sh) == \E col \in required_cols : col \notin sh.columns

RowQuestion(row) ==
    [level |-> PyStr(row["level"]), subject |-> PyStr(row["subject"]),
     text |-> PyStr(row["text"]), option1 |-> PyStr(row["option1"]),
     option2 |-> PyStr(row["option2"]), option3 |-> PyStr(row["option3"]),
     option4 |-> PyStr(row["option4"]),
     correct |-> PyInt(row["correct"]).val,
     explanation |-> PyStr(row["explanation"])]

\* the exception building Question(...) from a row raises, fields being
\* read in the order of the call: row[col] of an absent column is a KeyError
RowError(row) ==
    LET has(c) == c \in DOMAIN row
    IN  IF \E c \in {"level", "subject", "text", "option1", "option2",
                      "option3", "option4", "correct"} : ~has(c)
        THEN "KeyError"
        ELSE IF ~PyInt(row["correct"]).ok THEN "ValueError"
        ELSE IF ~has("explanation") THEN "KeyError"
        ELSE "none"

\* `for _, row in df.iterrows()`: build the Question, then add it
RECURSIVE ImportRows(_, _, _)
ImportRows(hasTable, store, rows) ==
    IF rows = <<>> THEN [db |-> store, raised |-> "none"]
    ELSE IF RowError(Head(rows)) # "none"
    THEN [db |-> store, raised |-> RowError(Head(rows))]
    ELSE LET r == add_question(hasTable, store, RowQuestion(Head(rows)))
         IN  IF r.raised # "none" THEN r
             ELSE ImportRows(hasTable, r.db, Tail(rows))

\* variant: no column check before the row loop
import_excel_NoColumnCheck(hasTable, store, sh) ==
    ImportRows(hasTable, store, sh.rows)

import_excel(hasTable, store, sh) ==
    IF MissingColumn(sh) THEN [db |-> store, raised |-> "ValueError"]
    ELSE ImportRows(hasTable, store, sh.rows)

\* ------------------------------------------------------------------------
\* get_questions
\* ------------------------------------------------------------------------
\* rows[:n], n of either sign
SliceTo(s, n) ==
    LET e == IF n >= 0 THEN (IF n < Len(s) THEN n ELSE Len(s))
             ELSE (IF Len(s) + n > 0 THEN Len(s) + n ELSE 0)
    IN  IF e = 0 THEN <<>> ELSE SubSeq(s, 1, e)

\* the rows the SELECT fetches, in table order
FetchAll(store, subj) ==
    IF Truthy(subj)
    THEN SelectSeq(store, LAMBDA r : r.subject = subj)
    ELSE store

\* the exception cur.execute(SELECT ...) raises: the subject is bound only
\* when the filter is added
SelectError(hasTable, subj) ==
    IF ~hasTable THEN "OperationalError"
    ELSE IF Truthy(subj) /\ ~Encodable(subj) THEN "UnicodeEncodeError"
    ELSE "none"

\* the orders random.shuffle can leave n rows in
Shuffles(n) == {p \in [1..n -> 1..n] : \A i, j \in 1..n : p[i] = p[j] => i = j}

get_questions(store, subj, n, p) ==
    LET rows == FetchAll(store, subj)
        shuffled == [i \in 1..Len(rows) |-> rows[p[i]]]
        cut == SliceTo(shuffled, n)
    IN  [i \in 1..Len(cut) |-> SelectColumns(cut[i])]

\* ------------------------------------------------------------------------
\* evaluate: one question
\* ------------------------------------------------------------------------
\* try: ans = int(ans)  except ValueError: ans = 0
AnswerInt(resp) == IF IntOfStr(resp).ok THEN IntOfStr(resp).val ELSE 0

\* variant: the response taken as a 0-based index
IsCorrect_ZeroBased(q, a) == a + 1 = q.correct

IsCorrect(q, a) == a = q.correct

Message(m, t, a, b) == [msg |-> m, text |-> t, a |-> a, b |-> b]

\* what one answer prints about question q
Verdict(q, a) ==
    IF IsCorrect(q, a) THEN Message("Correcto!", <<>>, 0, 0)
    ELSE Message("Incorrecto.", q.explanation, 0, 0)

\* ------------------------------------------------------------------------
\* Inputs
\* ------------------------------------------------------------------------
Q1Line == <<"1", ".", " ", "Q">>
Q10Line == <<"1", "0", ".", " ", "R">>
\* numbered with a superscript two, a digit for str.isdigit()
Q2Line == <<"²", ".", " ", "P">>
OptLineA == <<"A", ")", " ", "a">>
OptLineB == <<"B", ")", "b", "c">>
OptLineC == <<"C", ")">>
\* padded with a no-break space in front and an ideographic space behind
OptLineD == <<" ", "D", ")", " ", " ", "d", "\\u3000">>
\* an option whose text is a lone surrogate
OptLineS == <<"A", ")", " ", "\\ud83d">>
AnsLineA == AnswerPrefix \o <<" ", "A">>
AnsLineC == AnswerPrefix \o <<"C">>
AnsLineD == AnswerPrefix \o <<" ", "d", " ">>
\* nothing after the colon
AnsLineNone == AnswerPrefix
AnsLineAB == AnswerPrefix \o <<" ", "A", "B">>
AnsLineB == AnswerPrefix \o <<" ", "b">>
AnsLineZ == AnswerPrefix \o <<" ", "Z">>
AnsLineDColon == AnswerPrefix \o <<"D", ":">>
ExplLine == ExplanationPrefix \o <<" ", "e">>
ContLine == <<"x">>
\* a space and a no-break space
BlankLine == <<" ", " ">>

TailLines ==
    {Q1Line, Q10Line, OptLineA, OptLineB, OptLineC, OptLineD, AnsLineB,
     ExplLine, ContLine, BlankLine}

\* the Answer lines: each letter, no token, two letters, another letter,
\* and a second colon
AnswerLines ==
    {AnsLineA, AnsLineB, AnsLineC, AnsLineD, AnsLineNone, AnsLineAB,
     AnsLineZ, AnsLineDColon}

FourOptions == <<OptLineA, OptLineA, OptLineA, OptLineA>>

\* three complete blocks, the second with an option SQLite cannot bind
SurrogateDoc ==
    <<Q1Line>> \o FourOptions \o <<Q2Line, OptLineS, OptLineA, OptLineA,
      OptLineA, Q10Line, Q1Line, OptLineD, OptLineD, OptLineD, OptLineD>>

RECURSIVE SeqsUpTo(_, _)
SeqsUpTo(S, n) ==
    IF n = 0 THEN {<<>>}
    ELSE LET shorter == SeqsUpTo(S, n - 1)
         IN  shorter \cup {Append(t, x) : t \in shorter, x \in S}

DocPrefixes ==
    {<<>>,
     <<Q1Line, OptLineA, OptLineA, OptLineA, OptLineA>>}

\* longer starts: two blocks, a multi-digit line, lines before the first
\* question, a block of three options before another block, a block the
\* store rejects
LongDocPrefixes ==
    {<<Q1Line, OptLineA, OptLineA, OptLineA>>,
     <<Q1Line, OptLineA, OptLineA, OptLineA, OptLineA, AnsLineB, ExplLine,
       Q2Line, OptLineD, OptLineD, OptLineD>>,
     <<Q1Line, OptLineA, OptLineA, OptLineA, OptLineA, Q10Line, OptLineA,
       OptLineA, OptLineA>>,
     <<ContLine, OptLineA, AnsLineB, ExplLine, Q1Line, ContLine, OptLineA,
       OptLineA>>,
     <<Q1Line, OptLineA, OptLineA, OptLineA, AnsLineB, ExplLine, Q2Line,
       OptLineD, OptLineD, OptLineD>>,
     SurrogateDoc}

\* one complete block followed by Answer lines only
AnswerDocs ==
    {<<Q1Line>> \o FourOptions \o t : t \in SeqsUpTo(AnswerLines, MaxTail)}

\* documents: a start followed by up to MaxTail arbitrary lines, one line
\* fewer after a longer start
Docs ==
    {pre \o t : pre \in DocPrefixes, t \in SeqsUpTo(TailLines, MaxTail)}
        \cup {pre \o t : pre \in LongDocPrefixes,
                          t \in SeqsUpTo(TailLines, MaxTail - 1)}
        \cup AnswerDocs

LevelE == <<"e">>
SubjM == <<"m">>
SubjG == <<"g">>

\* documents the whole-program specification imports
ProgDocs ==
    {<<Q1Line, OptLineA, OptLineA, OptLineA, OptLineD, AnsLineZ, ExplLine>>,
     <<Q1Line, OptLineA, OptLineA, AnsLineB>>}

QuestionM2 ==
    [level |-> LevelE, subject |-> SubjM, text |-> <<"Q">>,
     option1 |-> <<"a">>, option2 |-> <<"b">>, option3 |-> <<"c">>,
     option4 |-> <<"d">>, correct |-> 2, explanation |-> <<"e">>]

QuestionM0 == [QuestionM2 EXCEPT !.correct = 0]

QuestionG3 == [QuestionM2 EXCEPT !.subject = SubjG, !.correct = 3]

\* a lone surrogate, as os.fsdecode leaves one in a command-line argument
SubjS == <<"\\udcff">>

\* questions SQLite cannot store: the text has no UTF-8 encoding, correct
\* exceeds 64 bits, or both correct and the explanation fail
QuestionS == [QuestionM2 EXCEPT !.text = <<"Q", "\\udcff">>]

QuestionBig == [QuestionM2 EXCEPT !.correct = TooBig]

QuestionBigS ==
    [QuestionM2 EXCEPT !.correct = TooSmall, !.explanation = <<"\\ud800">>]

AddArgs == {QuestionM2, QuestionS, QuestionBig, QuestionBigS}

\* 2^63, one more than SQLite holds
Digits2To63 ==
    <<"9", "2", "2", "3", "3", "7", "2", "0", "3", "6", "8", "5", "4", "7",
      "7", "5", "8", "0", "8">>

SheetRow(subj, corr) ==
    [c \in required_cols |->
        CASE c = "level" -> StrCell(LevelE)
          [] c = "subject" -> StrCell(subj)
          [] c = "correct" -> corr
          [] c = "text" -> IntCell(12)
          [] OTHER -> StrCell(<<"a">>)]

DropColumn(row, col) == [c \in (DOMAIN row) \ {col} |-> row[c]]

Sheet(cols, rows) == [columns |-> cols, rows |-> rows]

NoSheet == Sheet({}, <<>>)

Sheets ==
    {Sheet(required_cols, <<SheetRow(SubjG, IntCell(7))>>),
     Sheet(required_cols,
           <<SheetRow(SubjG, IntCell(7)), SheetRow(SubjG, NanCell)>>),
     Sheet(required_cols,
           <<SheetRow(SubjG, IntCell(7)),
             SheetRow(SubjG, StrCell(Digits2To63)),
             SheetRow(SubjG, IntCell(7))>>),
     Sheet(required_cols, <<SheetRow(SubjS, IntCell(7))>>),
     Sheet(required_cols \ {"explanation"},
           <<DropColumn(SheetRow(SubjG, IntCell(3)), "explanation")>>),
     Sheet(required_cols \ {"level"},
           <<DropColumn(SheetRow(SubjG, IntCell(3)), "level"),
             DropColumn(SheetRow(SubjG, NanCell), "level")>>)}

SubjectArgs == {NoneVal, <<>>, SubjM, SubjG, SubjS}

NumArgs == {0 - 1, 0, 1, MaxNum}

\* the fourth is a no-break space before 3, the last an Arabic-Indic three
Responses ==
    {<<"2">>, <<"0">>, <<"x">>, <<" ", "3">>, <<>>, <<"-", "1">>,
     <<"\\u0663">>}

\* ------------------------------------------------------------------------
\* State
\* ------------------------------------------------------------------------
VARIABLES
    table,        \* the table `questions` exists in the database file
    db,           \* its rows, in insertion order
    appended,     \* the questions add_question was given and inserted
    pc,           \* "idle"; "asking" while evaluate waits for input;
                  \* "parsing", "inserting" inside the loops of parse_pdf
    op,           \* the call that ran last
    raised,       \* the exception that ended it, or "none"
    level,        \* argument of parse_pdf
    subject,      \* argument of parse_pdf, get_questions, evaluate
    num,          \* argument of get_questions, evaluate
    sheet,        \* the data frame import_excel read
    lines,        \* parse_pdf: the lines of the document
    consumed,     \* how many of them `for line in lines` has processed
    inserted,     \* how many entries `for entry in data` has stored
    current_q,    \* parse_pdf locals
    options,
    correct,
    explanation,
    data,
    questions,    \* result of get_questions
    score,        \* evaluate locals
    pos,          \* position in `for q in questions`, from 1
    response,     \* what input() returned
    ans,          \* and its integer reading
    printed,      \* what the last step printed
    asked,        \* evaluate: the questions presented so far, in order
    log           \* evaluate: each response read and the verdict printed

storeVars == <<table, db, appended>>
callVars == <<op, raised, level, subject, num, sheet>>
parseVars ==
    <<lines, consumed, inserted, current_q, options, correct, explanation,
      data>>
quizVars == <<questions, score, pos, response, ans, printed, asked, log>>
vars == <<storeVars, pc, callVars, parseVars, quizVars>>

NoParse ==
    /\ lines = <<>>
    /\ consumed = 0
    /\ inserted = 0
    /\ current_q = NoneVal
    /\ options = <<>>
    /\ correct = Unbound
    /\ explanation = <<>>
    /\ data = <<>>

NoQuiz ==
    /\ questions = <<>>
    /\ score = 0
    /\ pos = 0
    /\ response = <<>>
    /\ ans = 0
    /\ printed = <<>>
    /\ asked = <<>>
    /\ log = <<>>

NoArgs ==
    /\ level = NoneVal
    /\ subject = NoneVal
    /\ num = 0
    /\ sheet = NoSheet

ResetArgs ==
    /\ level' = NoneVal
    /\ subject' = NoneVal
    /\ num' = 0
    /\ sheet' = NoSheet

\* the locals of a call do not outlive it
ResetParse ==
    /\ lines' = <<>>
    /\ consumed' = 0
    /\ inserted' = 0
    /\ current_q' = NoneVal
    /\ options' = <<>>
    /\ correct' = Unbound
    /\ explanation' = <<>>
    /\ data' = <<>>

ResetQuiz ==
    /\ questions' = <<>>
    /\ score' = 0
    /\ pos' = 0
    /\ response' = <<>>
    /\ ans' = 0
    /\ printed' = <<>>
    /\ asked' = <<>>
    /\ log' = <<>>

Init ==
    /\ table = FALSE
    /\ db = <<>>
    /\ appended = <<>>
    /\ pc = "idle"
    /\ op = "start"
    /\ raised = "none"
    /\ NoArgs
    /\ NoParse
    /\ NoQuiz

\* ------------------------------------------------------------------------
\* Operations
\* ------------------------------------------------------------------------
\* variant: the table is created anew, without IF NOT EXISTS after a drop
InitDb_Recreate ==
    /\ pc = "idle"
    /\ table' = TRUE
    /\ db' = <<>>
    /\ appended' = appended
    /\ op' = "init_db"
    /\ raised' = "none"
    /\ pc' = pc
    /\ ResetArgs /\ ResetParse /\ ResetQuiz

InitDb ==
    /\ pc = "idle"
    /\ table' = TRUE
    /\ db' = db
    /\ appended' = appended
    /\ op' = "init_db"
    /\ raised' = "none"
    /\ pc' = pc
    /\ ResetArgs /\ ResetParse /\ ResetQuiz

AddQuestion(q) ==
    /\ pc = "idle"
    /\ Len(db) < MaxStore
    /\ LET r == add_question(table, db, q)
       IN  /\ db' = r.db
           /\ raised' = r.raised
           /\ appended' = appended \o Added(db, r.db, <<q>>)
    /\ op' = "add_question"
    /\ UNCHANGED <<table, pc>>
    /\ ResetArgs /\ ResetParse /\ ResetQuiz

ImportExcel(sh) ==
    /\ pc = "idle"
    /\ Len(db) + Len(sh.rows) <= MaxStore
    /\ LET r == import_excel(table, db, sh)
       IN  /\ db' = r.db
           /\ raised' = r.raised
           /\ appended' = appended \o
                  Added(db, r.db, [i \in 1..Len(sh.rows) |->
                                      RowQuestion(sh.rows[i])])
    /\ op' = "import_excel"
    /\ sheet' = sh
    /\ level' = NoneVal /\ subject' = NoneVal /\ num' = 0
    /\ UNCHANGED <<table, pc>>
    /\ ResetParse /\ ResetQuiz

\* parse_pdf from the call to its return or its exception
ParsePdf(doc, lvl, subj) ==
    /\ pc = "idle"
    /\ LET st == ParseLines(doc)
           r == IF ReadsUnbound(st.data)
                THEN [db |-> db, raised |-> "UnboundLocalError"]
                ELSE AddAll(table, db, ParsedQuestions(lvl, subj, st.data))
       IN  /\ Len(db) + Len(st.data) <= MaxStore
           /\ lines' = doc
           /\ consumed' = Len(doc)
           /\ inserted' = Len(r.db) - Len(db)
           /\ current_q' = st.current_q
           /\ options' = st.options
           /\ correct' = st.correct
           /\ explanation' = st.explanation
           /\ data' = st.data
           /\ db' = r.db
           /\ raised' = r.raised
           /\ appended' = appended \o
                  Added(db, r.db, ParsedQuestions(lvl, subj, st.data))
    /\ op' = "parse_pdf"
    /\ level' = lvl /\ subject' = subj
    /\ num' = 0 /\ sheet' = NoSheet
    /\ UNCHANGED <<table, pc>>
    /\ ResetQuiz

\* parse_pdf statement by statement: the locals as parse_pdf holds them
Locals ==
    [current_q |-> current_q, data |-> data, options |-> options,
     correct |-> correct, explanation |-> explanation]

\* the call, up to the first iteration of `for line in lines`
ParsePdfCall(doc, lvl, subj) ==
    /\ pc = "idle"
    /\ Len(db) + Len(ParseLines(doc).data) <= MaxStore
    /\ lines' = doc
    /\ consumed' = 0
    /\ inserted' = 0
    /\ current_q' = ParseStart.current_q
    /\ options' = ParseStart.options
    /\ correct' = ParseStart.correct
    /\ explanation' = ParseStart.explanation
    /\ data' = ParseStart.data
    /\ pc' = "parsing"
    /\ op' = "parse_pdf"
    /\ raised' = "none"
    /\ level' = lvl /\ subject' = subj
    /\ num' = 0 /\ sheet' = NoSheet
    /\ UNCHANGED storeVars
    /\ ResetQuiz

\* one iteration of `for line in lines`
ParsePdfLine ==
    /\ pc = "parsing"
    /\ consumed < Len(lines)
    /\ LET st == ParseLine(Locals, lines[consumed + 1])
       IN  /\ current_q' = st.current_q
           /\ options' = st.options
           /\ correct' = st.correct
           /\ explanation' = st.explanation
           /\ data' = st.data
           /\ raised' = IF ReadsUnbound(st.data) THEN "UnboundLocalError"
                        ELSE raised
           /\ pc' = IF ReadsUnbound(st.data) THEN "idle" ELSE pc
    /\ consumed' = consumed + 1
    /\ UNCHANGED <<storeVars, op, level, subject, num, sheet, lines,
                   inserted, quizVars>>

\* the loop has ended: the finalize test after it
ParsePdfLast ==
    /\ pc = "parsing"
    /\ consumed = Len(lines)
    /\ data' = Finalize(Locals)
    /\ raised' = IF ReadsUnbound(data') THEN "UnboundLocalError" ELSE raised
    /\ pc' = IF ReadsUnbound(data') THEN "idle" ELSE "inserting"
    /\ UNCHANGED <<storeVars, op, level, subject, num, sheet, lines,
                   consumed, inserted, current_q, options, correct,
                   explanation, quizVars>>

\* one iteration of `for entry in data`: add_question commits the row or
\* raises, which ends parse_pdf
ParsePdfInsert ==
    /\ pc = "inserting"
    /\ inserted < Len(data)
    /\ LET q == ParsedQuestions(level, subject, data)[inserted + 1]
           r == add_question(table, db, q)
       IN  /\ db' = r.db
           /\ raised' = r.raised
           /\ appended' = appended \o Added(db, r.db, <<q>>)
           /\ inserted' = IF r.raised = "none" THEN inserted + 1
                          ELSE inserted
           /\ pc' = IF r.raised = "none" THEN pc ELSE "idle"
    /\ UNCHANGED <<table, op, level, subject, num, sheet, lines, consumed,
                   current_q, options, correct, explanation, data,
                   quizVars>>

\* `for entry in data` has ended: parse_pdf returns
ParsePdfReturn ==
    /\ pc = "inserting"
    /\ inserted = Len(data)
    /\ pc' = "idle"
    /\ UNCHANGED <<storeVars, callVars, parseVars, quizVars>>

GetQuestions(subj, n) ==
    /\ pc = "idle"
    /\ IF SelectError(table, subj) = "none"
       THEN /\ \E p \in Shuffles(Len(FetchAll(db, subj))) :
                 questions' = get_questions(db, subj, n, p)
            /\ raised' = "none"
       ELSE /\ questions' = <<>>
            /\ raised' = SelectError(table, subj)
    /\ op' = "get_questions"
    /\ subject' = subj /\ num' = n
    /\ level' = NoneVal /\ sheet' = NoSheet
    /\ score' = 0 /\ pos' = 0 /\ response' = <<>> /\ ans' = 0
    /\ printed' = <<>>
    /\ asked' = <<>> /\ log' = <<>>
    /\ UNCHANGED <<storeVars, pc>>
    /\ ResetParse

\* evaluate up to its first input(), or to its return
EvaluateStart(subj, n) ==
    /\ pc = "idle"
    /\ IF SelectError(table, subj) = "none"
       THEN /\ \E p \in Shuffles(Len(FetchAll(db, subj))) :
                 questions' = get_questions(db, subj, n, p)
            /\ raised' = "none"
            /\ printed' = IF questions' = <<>>
                          THEN <<Message("No hay preguntas disponibles.",
                                         <<>>, 0, 0)>>
                          ELSE <<>>
            /\ pc' = IF questions' = <<>> THEN "idle" ELSE "asking"
            /\ pos' = IF questions' = <<>> THEN 0 ELSE 1
       ELSE /\ questions' = <<>>
            /\ raised' = SelectError(table, subj)
            /\ printed' = <<>>
            /\ pc' = "idle"
            /\ pos' = 0
    /\ op' = "evaluate"
    /\ subject' = subj /\ num' = n
    /\ level' = NoneVal /\ sheet' = NoSheet
    /\ score' = 0 /\ response' = <<>> /\ ans' = 0
    /\ asked' = IF questions' = <<>> THEN <<>> ELSE <<questions'[1]>>
    /\ log' = <<>>
    /\ UNCHANGED storeVars
    /\ ResetParse

\* one input() of evaluate, up to the next input() or to the return
EvaluateAnswer(resp) ==
    /\ pc = "asking"
    /\ LET q == questions[pos]
           a == AnswerInt(resp)
           newScore == IF IsCorrect(q, a) THEN score + 1 ELSE score
       IN  /\ response' = resp
           /\ ans' = a
           /\ score' = newScore
           /\ printed' =
                IF pos = Len(questions)
                THEN <<Verdict(q, a),
                       Message("Resultado:", <<>>, newScore, Len(questions))>>
                ELSE <<Verdict(q, a)>>
           /\ log' = Append(log, [response |-> resp, said |-> Verdict(q, a)])
    /\ asked' = IF pos = Len(questions) THEN asked
                ELSE Append(asked, questions[pos + 1])
    /\ pos' = pos + 1
    /\ pc' = IF pos = Len(questions) THEN "idle" ELSE "asking"
    /\ UNCHANGED <<storeVars, callVars, parseVars, questions>>

\* ------------------------------------------------------------------------
\* Specifications
\* ------------------------------------------------------------------------
\* the store and its import paths
Next ==
    \/ InitDb
    \/ \E q \in AddArgs : AddQuestion(q)
    \/ \E sh \in Sheets : ImportExcel(sh)
    \/ \E doc \in ProgDocs : ParsePdf(doc, LevelE, SubjM)
    \/ \E subj \in SubjectArgs, n \in NumArgs : GetQuestions(subj, n)
    \/ \E subj \in SubjectArgs, n \in NumArgs : EvaluateStart(subj, n)
    \/ \E resp \in {<<"2">>} : EvaluateAnswer(resp)

Spec == Init /\ [][Next]_vars

\* the store that adding qs, in order, to an empty table builds; what the
\* table rejects adds no row
RECURSIVE StoreOf(_)
StoreOf(qs) ==
    IF qs = <<>> THEN <<>>
    ELSE add_question(TRUE, StoreOf(SubSeq(qs, 1, Len(qs) - 1)),
                      qs[Len(qs)]).db

\* parse_pdf, called once, on a family of documents; the stores it starts
\* on: no table, an empty one, one with a row
ParseStores ==
    {[table |-> FALSE, qs |-> <<>>],
     [table |-> TRUE, qs |-> <<>>],
     [table |-> TRUE, qs |-> <<QuestionG3>>]}

InitParse ==
    /\ \E st \in ParseStores :
           /\ table = st.table
           /\ db = StoreOf(st.qs)
           /\ appended = st.qs
    /\ pc = "idle"
    /\ op = "start"
    /\ raised = "none"
    /\ NoArgs
    /\ NoParse
    /\ NoQuiz

NextParse == op = "start" /\ \E doc \in Docs : ParsePdf(doc, LevelE, SubjM)

SpecParse == InitParse /\ [][NextParse]_vars

\* parse_pdf statement by statement, once per behaviour
StepTailLines == {Q1Line, OptLineD, AnsLineB, ContLine}

StepPrefixes ==
    {<<>>,
     <<Q1Line>> \o FourOptions \o <<AnsLineB, ExplLine, Q2Line, OptLineD,
       OptLineD, OptLineD>>,
     SurrogateDoc}

StepDocs ==
    {pre \o t : pre \in StepPrefixes, t \in SeqsUpTo(StepTailLines, MaxTail)}

NextSteps ==
    \/ op = "start" /\ \E doc \in StepDocs : ParsePdfCall(doc, LevelE, SubjM)
    \/ ParsePdfLine
    \/ ParsePdfLast
    \/ ParsePdfInsert
    \/ ParsePdfReturn

SpecSteps == InitParse /\ [][NextSteps]_vars

\* the statements of parse_pdf compose to the whole call: when the steps
\* have ended, the locals, the store and the exception are those ParsePdf
\* leaves (an invariant of SpecSteps)
StepsAgree ==
    (pc = "idle" /\ op = "parse_pdf") =>
        LET st == ParseLines(lines)
            before == SubSeq(db, 1, Len(db) - inserted)
            r == AddAll(table, before,
                        ParsedQuestions(level, subject, st.data))
        IN  /\ consumed = Len(lines)
            /\ current_q = st.current_q
            /\ options = st.options
            /\ correct = st.correct
            /\ explanation = st.explanation
            /\ data = st.data
            /\ db = r.db
            /\ raised = r.raised

\* the quiz on the stores the import paths can build

QuizInputs == SeqsUpTo({QuestionM2, QuestionM0, QuestionG3}, MaxQuiz)

InitEval ==
    /\ table = TRUE
    /\ \E qs \in QuizInputs : db = StoreOf(qs) /\ appended = qs
    /\ pc = "idle"
    /\ op = "start"
    /\ raised = "none"
    /\ NoArgs
    /\ NoParse
    /\ NoQuiz

NextEval ==
    \/ \E subj \in SubjectArgs, n \in NumArgs : EvaluateStart(subj, n)
    \/ \E resp \in Responses : EvaluateAnswer(resp)

SpecEval == InitEval /\ [][NextEval]_vars

\* ------------------------------------------------------------------------
\* Vocabulary of the properties: question blocks of a document
\* ------------------------------------------------------------------------
SetMax(S) == CHOOSE x \in S : \A y \in S : y <= x

SetMin(S) == CHOOSE x \in S : \A y \in S : x <= y

NthSmallest(S, j) == CHOOSE x \in S : Cardinality({y \in S : y < x}) = j - 1

CountIn(seq, x) == Cardinality({i \in 1..Len(seq) : seq[i] = x})

\* positions of the recognised new-question lines
QStarts(doc) == {i \in 1..Len(doc) : IsNewQuestionLine(Strip(doc[i]))}

\* last line of the block that line i opens
BlockEnd(doc, i) ==
    LET later == {j \in QStarts(doc) : j > i}
    IN  IF later = {} THEN Len(doc) ELSE SetMin(later) - 1

BlockBody(doc, i) == (i + 1)..BlockEnd(doc, i)

OptionLinesOf(doc, i) ==
    {k \in BlockBody(doc, i) : IsOptionLine(Strip(doc[k]))}

AnswerLinesOf(doc, i) ==
    {k \in BlockBody(doc, i) : IsAnswerLine(Strip(doc[k]))}

FourOptionBlocks(doc) ==
    {i \in QStarts(doc) : Cardinality(OptionLinesOf(doc, i)) = 4}

\* A->1 .. D->4 of the trimmed, upper-cased text after the first colon
LetterIndex(line) ==
    LET token == Upper(Strip(SplitColon1(Strip(line))))
        letters == <<"A", "B", "C", "D">>
    IN  IF \E n \in 1..4 : token = <<letters[n]>>
        THEN CHOOSE n \in 1..4 : token = <<letters[n]>>
        ELSE 0

ExpectedCorrect(doc, i) ==
    IF AnswerLinesOf(doc, i) = {} THEN 0
    ELSE LetterIndex(doc[SetMax(AnswerLinesOf(doc, i))])

\* the option lines that follow the last new-question line, in order
OpenOptionLines(doc) ==
    LET from == IF QStarts(doc) = {} THEN 1 ELSE SetMax(QStarts(doc)) + 1
        rest == IF from > Len(doc) THEN <<>> ELSE SubSeq(doc, from, Len(doc))
    IN  SelectSeq(rest, LAMBDA l : IsOptionLine(Strip(l)))

\* the text after the 2-character marker, whitespace removed
TextAfterMarker(line) == Strip(SliceFrom(Strip(line), 2))

\* a line that reaches the last branch of the loop
IsContinuationLine(line) ==
    /\ line # <<>>
    /\ ~IsNewQuestionLine(line)
    /\ ~IsOptionLine(line)
    /\ ~IsAnswerLine(line)
    /\ ~IsExplanationLine(line)

\* " " and the trimmed content of each continuation line of doc[k..last]
RECURSIVE JoinContinuations(_, _, _)
JoinContinuations(doc, k, last) ==
    IF k > last THEN <<>>
    ELSE (IF IsContinuationLine(Strip(doc[k]))
          THEN <<" ">> \o Strip(doc[k])
          ELSE <<>>) \o JoinContinuations(doc, k + 1, last)

\* text of the block that line i opens
ExpectedText(doc, i) ==
    SliceFrom(Strip(doc[i]), 3) \o
        JoinContinuations(doc, i + 1, BlockEnd(doc, i))

ExplanationLinesOf(doc, i) ==
    {k \in BlockBody(doc, i) : IsExplanationLine(Strip(doc[k]))}

\* the lines of the block that line i opens, the opening line first
BlockOf(doc, i) == SubSeq(doc, i, BlockEnd(doc, i))

\* the option values of the block's own option lines, in order
OwnOptions(doc, i) ==
    LET ol == SelectSeq(BlockOf(doc, i), LAMBDA l : IsOptionLine(Strip(l)))
    IN  [k \in 1..Len(ol) |-> OptionValue(Strip(ol[k]))]

\* the four option columns of a row
RowOptions(r) == <<r.option1, r.option2, r.option3, r.option4>>

\* the rows the last call of parse_pdf inserted, in order
NewRows == SubSeq(db, Len(db) - inserted + 1, Len(db))

\* candidates of a sample: all rows when no subject is given, else the
\* rows with exactly that subject
Candidates(store, subj) ==
    {i \in 1..Len(store) : subj = NoneVal \/ store[i].subject = subj}

MinOf(a, b) == IF a <= b THEN a ELSE b

\* ------------------------------------------------------------------------
\* Properties
\* ------------------------------------------------------------------------
\* C1: on an initialised store parse_pdf persists, for every document,
\* exactly one record per question block that has exactly 4 option lines,
\* the record of that block, and none for any other block; the block closed
\* by the end of input follows the same rule.
C1_OneRecordPerFourOptionBlock ==
    [][(op' = "parse_pdf" /\ table) =>
          LET good == FourOptionBlocks(lines')
              n == Cardinality(good)
          IN  /\ Len(data') = n
              /\ Len(db') = Len(db) + n
              /\ SubSeq(db', 1, Len(db)) = db
              /\ \A j \in 1..n :
                    LET i == NthSmallest(good, j)
                    IN  /\ db'[Len(db) + j].text = ExpectedText(lines', i)
                        /\ RowOptions(db'[Len(db) + j]) =
                               OwnOptions(lines', i)]_vars

\* C2: a question stored with correct = 0 is never counted as answered
\* correctly, whatever the response.
C2_ZeroNeverCounted ==
    [][(pc = "asking" /\ questions[pos].correct = 0) => score' = score]_vars

\* C3: the option value parse_pdf appends is the text after the 2-character
\* marker with surrounding whitespace removed; no other character is lost.
C3_OptionValueKeepsText ==
    op = "parse_pdf" =>
        options = [i \in 1..Len(OpenOptionLines(lines)) |->
                      TextAfterMarker(OpenOptionLines(lines)[i])]

\* C4: every record parse_pdf persists has four options, each non-empty
\* after trimming.
C4_PersistedOptionsNonEmpty ==
    [][op' = "parse_pdf" =>
          \A k \in (Len(db) + 1)..Len(db') :
              /\ Strip(db'[k].option1) # <<>>
              /\ Strip(db'[k].option2) # <<>>
              /\ Strip(db'[k].option3) # <<>>
              /\ Strip(db'[k].option4) # <<>>]_vars

\* C5: the correct field of every record parse_pdf emits is the letter
\* index of the last Answer line of its block (the text after the first
\* colon, trimmed and upper-cased, A-D -> 1-4, anything else -> 0), and 0
\* when the block has no Answer line; the rows it inserted carry that value.
C5_CorrectFromLastAnswer ==
    op = "parse_pdf" =>
        LET good == FourOptionBlocks(lines)
            n == Cardinality(good)
        IN  /\ Len(data) = n
            /\ \A j \in 1..n :
                  data[j].correct =
                      ExpectedCorrect(lines, NthSmallest(good, j))
            /\ inserted <= n
            /\ \A j \in 1..inserted :
                  NewRows[j].correct =
                      ExpectedCorrect(lines, NthSmallest(good, j))

C5_Witness ==
    /\ op = "parse_pdf"
    /\ inserted = 1
    /\ data[1].correct = 4
    /\ db[Len(db)].correct = 4
    /\ \E i \in FourOptionBlocks(lines) :
          \E k1, k2, k3 \in AnswerLinesOf(lines, i) :
              /\ k1 < k2 /\ k2 < k3
              /\ lines[k1] = AnsLineNone
              /\ LetterIndex(lines[k2]) = 3
              /\ lines[k3] = AnsLineD

\* C6: on an initialised store, for every subject filter and every count
\* >= 0, get_questions returns min(count, number of candidates) records,
\* each a distinct candidate row of the store; the candidates of a given
\* subject are the rows with exactly that subject.
C6_SampleSize ==
    (op = "get_questions" /\ table /\ num >= 0) =>
        LET cand == Candidates(db, subject)
        IN  /\ raised = "none"
            /\ Len(questions) = MinOf(num, Cardinality(cand))
            /\ \E f \in [1..Len(questions) -> cand] :
                  /\ \A i, j \in 1..Len(questions) : f[i] = f[j] => i = j
                  /\ \A i \in 1..Len(questions) :
                        questions[i] = SelectColumns(db[f[i]])

\* C7: every appended record is returned by get_questions called with its
\* subject and a count of at least the store size, with the nine fields it
\* was appended with, once per append.
C7_RoundTrip ==
    (op = "get_questions" /\ raised = "none" /\ subject # NoneVal
        /\ num >= Len(db)) =>
        \A i \in 1..Len(appended) :
            appended[i].subject = subject =>
                CountIn(questions, appended[i]) = CountIn(appended, appended[i])

C7_Witness ==
    /\ op = "get_questions"
    /\ raised = "none"
    /\ subject = SubjM
    /\ num >= Len(db)
    /\ Len(appended) = 3
    /\ CountIn(appended, QuestionM2) = 2
    /\ CountIn(questions, QuestionM2) = 2
    /\ \E i \in 1..Len(appended) : appended[i].subject = SubjG

\* C8: a response that is not a well-formed integer is read as 0, leaves the
\* score as it was and makes evaluate report the stored explanation.
C8_MalformedIsWrong ==
    [][(pc = "asking" /\ ~IntOfStr(response').ok) =>
          /\ ans' = 0
          /\ score' = score
          /\ printed'[1] =
                Message("Incorrecto.", questions[pos].explanation, 0, 0)]_vars

\* C9: import_excel of a sheet that lacks a required column fails with a
\* validation error and leaves the store as it was.
C9_MissingColumnFailsFast ==
    [][(op' = "import_excel" /\ ~(required_cols \subseteq sheet'.columns)) =>
          /\ raised' = "ValueError"
          /\ db' = db
          /\ appended' = appended]_vars

C9_Witness ==
    /\ op = "import_excel"
    /\ table
    /\ ~(required_cols \subseteq sheet.columns)
    /\ Len(sheet.rows) = 2
    /\ raised = "ValueError"
    /\ db # <<>>

\* C10: every record of the store has correct in {0,1,2,3,4}.
C10_CorrectInRange == \A i \in 1..Len(db) : db[i].correct \in 0..4

\* C11: parse_pdf inserts no record before it has consumed every line of
\* the document and finalized every block; each insertion adds one row, the
\* record of the next emitted block in document order, with an id greater
\* than that of every row inserted before.
C11_DocumentOrder ==
    [][(op' = "parse_pdf" /\ db' # db) =>
          LET good == FourOptionBlocks(lines)
              n == Cardinality(good)
          IN  /\ consumed = Len(lines)
              /\ consumed' = consumed
              /\ Len(data) = n
              /\ data' = data
              /\ inserted < n
              /\ inserted' = inserted + 1
              /\ Len(db') = Len(db) + 1
              /\ SubSeq(db', 1, Len(db)) = db
              /\ LET i == NthSmallest(good, inserted + 1)
                     row == db'[Len(db')]
                 IN  /\ row.text = ExpectedText(lines, i)
                     /\ RowOptions(row) = OwnOptions(lines, i)
                     /\ \A k \in 1..Len(db) : db[k].id < row.id]_vars

C11_Witness ==
    /\ op = "parse_pdf"
    /\ pc = "idle"
    /\ raised = "none"
    /\ consumed = Len(lines)
    /\ Cardinality(FourOptionBlocks(lines)) = 2
    /\ inserted = 2
    /\ Len(db) = 3
    /\ db[2].text = <<"Q">>
    /\ db[3].text = <<"P">>
    /\ db[1].id < db[2].id
    /\ db[2].id < db[3].id

\* the questions of a finished quiz whose response, read as an integer
\* (0 when malformed), equals the stored correct value
Matched == {i \in 1..Len(log) : AnswerInt(log[i].response) = questions[i].correct}

\* C12: evaluate presents each sampled question once, in sample order; when
\* it returns, score is the number of questions whose integer-read response
\* equals correct, 0 <= score <= total = sample length, and the explanation
\* was reported exactly for the questions that did not score.
C12_ScoreCountsMatches ==
    (op = "evaluate" /\ raised = "none" /\ questions # <<>>) =>
        /\ asked = SubSeq(questions, 1, Len(asked))
        /\ pc = "asking" => Len(asked) = pos /\ Len(log) = pos - 1
        /\ pc = "idle" =>
              /\ asked = questions
              /\ Len(log) = Len(questions)
              /\ score = Cardinality(Matched)
              /\ 0 <= score /\ score <= Len(questions)
              /\ printed[Len(printed)] =
                    Message("Resultado:", <<>>, score, Len(questions))
              /\ \A i \in 1..Len(log) :
                    log[i].said =
                        IF i \in Matched
                        THEN Message("Correcto!", <<>>, 0, 0)
                        ELSE Message("Incorrecto.", questions[i].explanation,
                                     0, 0)

C12_Witness ==
    /\ op = "evaluate"
    /\ pc = "idle"
    /\ Len(questions) = 2
    /\ questions[1] # questions[2]
    /\ score = 1
    /\ log[1].said.msg = "Incorrecto."
    /\ log[2].said.msg = "Correcto!"
    /\ questions[2].correct = 2

\* C13: init_db, get_questions and evaluate leave the stored records as
\* they are; no step deletes or alters a row, and the store changes only by
\* rows that add_question appends.
C13_StoreOnlyGrows ==
    [][/\ op' \in {"init_db", "get_questions", "evaluate"} => db' = db
       /\ table => table'
       /\ Len(db') >= Len(db)
       /\ SubSeq(db', 1, Len(db)) = db
       /\ db' # db =>
             /\ op' \in {"add_question", "import_excel", "parse_pdf"}
             /\ Len(appended') - Len(appended) = Len(db') - Len(db)]_vars

C13_Witness ==
    /\ op = "init_db"
    /\ table
    /\ Len(db) >= 2

\* a trimmed line numbered with one digit: digit, period, space
SingleDigitNumbered(line) ==
    Len(line) >= 3 /\ IsDigit(line[1]) /\ line[2] = "." /\ line[3] = " "

\* a trimmed line numbered with two or more digits, as "10. What"
MultiDigitNumbered(line) ==
    \E k \in 2..Len(line) :
        /\ \A i \in 1..k : IsDigit(line[i])
        /\ Len(line) >= k + 2
        /\ line[k + 1] = "."
        /\ line[k + 2] = " "

SingleDigitStarts(doc) ==
    {i \in 1..Len(doc) : SingleDigitNumbered(Strip(doc[i]))}

\* the question text when line s opened the question and every later
\* multi-digit line is a continuation; no single-digit line follows s
RECURSIVE TextWithMultiDigit(_, _)
TextWithMultiDigit(doc, k) ==
    IF k > Len(doc) THEN <<>>
    ELSE (IF MultiDigitNumbered(Strip(doc[k]))
             \/ IsContinuationLine(Strip(doc[k]))
          THEN <<" ">> \o Strip(doc[k])
          ELSE <<>>) \o TextWithMultiDigit(doc, k + 1)

\* C14: a line numbered with several digits neither opens nor finalizes a
\* question: it is appended to the open question's text, and the option
\* lines after it go to that same question.
C14_MultiDigitIsContinuation ==
    (op = "parse_pdf"
        /\ \E i \in 1..Len(lines) : MultiDigitNumbered(Strip(lines[i]))) =>
        LET starts == SingleDigitStarts(lines)
            s == SetMax(starts)
            optsAfter(a) ==
                {k \in (a + 1)..Len(lines) : IsOptionLine(Strip(lines[k]))}
        IN  IF starts = {}
            THEN current_q = NoneVal /\ data = <<>>
            ELSE /\ current_q =
                       SliceFrom(Strip(lines[s]), 3) \o
                           TextWithMultiDigit(lines, s + 1)
                 /\ Len(options) = Cardinality(optsAfter(s))
                 /\ Len(data) =
                       Cardinality({i \in starts \ {s} :
                           Cardinality({k \in optsAfter(i) :
                               k < SetMin({j \in starts : j > i})}) = 4})
                       + (IF Cardinality(optsAfter(s)) = 4 THEN 1 ELSE 0)

C14_Witness ==
    /\ op = "parse_pdf"
    /\ current_q = <<"Q", " ", "1", "0", ".", " ", "R">>
    /\ Len(options) = 8
    /\ data = <<>>
    /\ Len(db) = Len(appended)
    /\ \A i \in 1..Len(db) : db[i].text # current_q

\* C15: the text of every record parse_pdf emits is the rest of its
\* new-question line after the 3-character marker followed, for each
\* continuation line of the block in order, by one space and the trimmed
\* line, wherever the line stands in the block, blank lines adding nothing;
\* the rows it inserted carry that text.
C15_TextOfBlock ==
    op = "parse_pdf" =>
        LET good == FourOptionBlocks(lines)
            n == Cardinality(good)
        IN  /\ Len(data) = n
            /\ \A j \in 1..n :
                  data[j].text = ExpectedText(lines, NthSmallest(good, j))
            /\ inserted <= n
            /\ \A j \in 1..inserted :
                  NewRows[j].text =
                      ExpectedText(lines, NthSmallest(good, j))

C15_Witness ==
    /\ op = "parse_pdf"
    /\ inserted = 1
    /\ data[1].text = <<"Q", " ", "x", " ", "x">>
    /\ db[Len(db)].text = <<"Q", " ", "x", " ", "x">>
    /\ \E i \in FourOptionBlocks(lines) :
          \E k1, k2 \in BlockBody(lines, i) :
              /\ IsContinuationLine(Strip(lines[k1]))
              /\ IsContinuationLine(Strip(lines[k2]))
              /\ k1 < k2
              /\ \E o \in OptionLinesOf(lines, i) : o < k1
              /\ \E a \in AnswerLinesOf(lines, i) : k1 < a /\ a < k2

\* C16: a new question resets every accumulator: each emitted record is the
\* record its own block yields when parsed alone, with correct = 0 when the
\* block has no Answer line and explanation = "" when it has no Explanation
\* line, whatever preceded the block.
C16_RecordFromOwnBlock ==
    op = "parse_pdf" =>
        LET good == FourOptionBlocks(lines)
            n == Cardinality(good)
        IN  /\ Len(data) = n
            /\ \A j \in 1..n :
                  LET i == NthSmallest(good, j)
                  IN  /\ <<data[j]>> = ParseLines(BlockOf(lines, i)).data
                      /\ data[j].options = OwnOptions(lines, i)
                      /\ AnswerLinesOf(lines, i) = {} => data[j].correct = 0
                      /\ ExplanationLinesOf(lines, i) = {} =>
                            data[j].explanation = <<>>

C16_Witness ==
    /\ op = "parse_pdf"
    /\ Len(data) = 2
    /\ data[1].correct = 2
    /\ data[1].explanation = <<"e">>
    /\ data[1].options = <<<<"a">>, <<"a">>, <<"a">>, <<"a">>>>
    /\ data[2].correct = 0
    /\ data[2].explanation = <<>>
    /\ data[2].options = <<<<"d">>, <<"d">>, <<"d">>, <<"d">>>>

\* the document without the lines that precede its first new-question line
FromFirstQuestion(doc) ==
    IF QStarts(doc) = {} THEN <<>>
    ELSE SubSeq(doc, SetMin(QStarts(doc)), Len(doc))

\* C17: on an initialised store parse_pdf ends without an exception for
\* every document; the lines before the first new-question line do not
\* change what is persisted, and a document without a new-question line
\* persists nothing.
C17_LinesBeforeFirstQuestion ==
    [][(op' = "parse_pdf" /\ table) =>
          /\ raised' = "none"
          /\ \A j \in 1..Len(data') :
                /\ data'[j].correct \in 0..4
                /\ Len(data'[j].options) = 4
          /\ data' = ParseLines(FromFirstQuestion(lines')).data
          /\ Len(db') = Len(db) + Len(data')
          /\ \A j \in 1..Len(data') :
                SelectColumns(db'[Len(db) + j]) =
                    MakeQuestion(level', subject', data'[j])
          /\ QStarts(lines') = {} => db' = db /\ data' = <<>>]_vars

\* C18: when get_questions is given a subject that is a string, the empty
\* string included, every returned record has exactly that subject.
C18_SubjectFilterExact ==
    (op \in {"get_questions", "evaluate"} /\ raised = "none"
        /\ subject # NoneVal) =>
        \A i \in 1..Len(questions) : questions[i].subject = subject

\* C19: get_questions never returns more than max(count, 0) records; with
\* a negative count it returns none and evaluate reports that no questions
\* are available.
C19_AtMostCount ==
    (op \in {"get_questions", "evaluate"} /\ raised = "none") =>
        /\ Len(questions) <= (IF num > 0 THEN num ELSE 0)
        /\ (op = "evaluate" /\ num < 0) =>
              /\ pc = "idle"
              /\ printed =
                    <<Message("No hay preguntas disponibles.", <<>>, 0, 0)>>
====
